---- MODULE Spec2Model ----
(***************************************************************************)
(* A model of tiny-AES-c (src/aes.c): the AES block cipher with its key    *)
(* schedule and the ECB, CBC and CTR mode drivers.                         *)
(*                                                                         *)
(* A byte is a number in 0..255.  A 32-bit word (uint32_t) is the tuple of *)
(* its four bytes, least significant first: this is at once the value of   *)
(* the word modulo 2^32 and the byte view that the unions state_t and      *)
(* helper_t give of it on the little-endian targets the masks of the code  *)
(* are written for (a[c][r] is byte r of i[c]).  Every word operation of   *)
(* the code (xor, and, or, shifts, product) is computed on that            *)
(* representation, modulo 2^32.  Sequences are 1-based: C index k is TLA+  *)
(* index k + 1.                                                            *)
(***************************************************************************)
EXTENDS Integers, Sequences, FiniteSets, TLC

VARIABLES
    build,      \* which of AES128 / AES192 / AES256 the library is compiled for
    mode,       \* the mode the caller uses its context in: "ECB", "CBC" or "CTR"
    ctx,        \* struct AES_ctx: [RoundKey, Iv]
    inited,     \* AES_init_ctx / AES_init_ctx_iv has run on ctx
    buf,        \* the caller's buffer: the bytes of its storage
    adj,        \* the bytes of memory that follow the caller's buffer
    hist,       \* the calls made so far, each with its inputs and outputs
    fault,      \* an access outside the caller's storage has ended the run
    ctxB,       \* a second context
    bufB,       \* a second buffer
    pc,         \* positions: of the stepwise block cipher, of the concurrent callers
    st          \* locals: of the stepwise block cipher, of the concurrent callers

vars == <<build, mode, ctx, inited, buf, adj, hist, fault, ctxB, bufB, pc, st>>

Byte == 0..255

\* "x = v; F(x)": v is computed once, before F uses it, as an assignment to a
\* local does, so that the iterations of a loop are evaluated one after the other.
Bind(v, F(_)) == CASE v = v -> F(v)

(***************************************************************************)
(* Bit operations on bytes, tabulated once: on 4-bit halves bit by bit,    *)
(* on bytes from the halves.                                               *)
(***************************************************************************)
Nibble == 0..15

RECURSIVE BitsXor(_, _, _)
BitsXor(a, b, n) ==
    IF n = 0 THEN 0
    ELSE ((a + b) % 2) + 2 * BitsXor(a \div 2, b \div 2, n - 1)

RECURSIVE BitsAnd(_, _, _)
BitsAnd(a, b, n) ==
    IF n = 0 THEN 0
    ELSE ((a % 2) * (b % 2)) + 2 * BitsAnd(a \div 2, b \div 2, n - 1)

NibXor == [a \in Nibble |-> [b \in Nibble |-> BitsXor(a, b, 4)]]

NibAnd == [a \in Nibble |-> [b \in Nibble |-> BitsAnd(a, b, 4)]]

XorTab == [a \in Byte |-> [b \in Byte |->
              NibXor[a % 16][b % 16] + 16 * NibXor[a \div 16][b \div 16]]]

AndTab == [a \in Byte |-> [b \in Byte |->
              NibAnd[a % 16][b % 16] + 16 * NibAnd[a \div 16][b \div 16]]]

\* a | b = (a ^ b) + (a & b)
OrTab == [a \in Byte |-> [b \in Byte |-> XorTab[a][b] + AndTab[a][b]]]

Xor8(a, b) == XorTab[a][b]

And8(a, b) == AndTab[a][b]

Or8(a, b) == OrTab[a][b]

(***************************************************************************)
(* uint32_t arithmetic on the four bytes of a word.                        *)
(***************************************************************************)
XorW(x, y) == <<XorTab[x[1]][y[1]], XorTab[x[2]][y[2]], XorTab[x[3]][y[3]], XorTab[x[4]][y[4]]>>

AndW(x, y) == <<AndTab[x[1]][y[1]], AndTab[x[2]][y[2]], AndTab[x[3]][y[3]], AndTab[x[4]][y[4]]>>

OrW(x, y) == <<OrTab[x[1]][y[1]], OrTab[x[2]][y[2]], OrTab[x[3]][y[3]], OrTab[x[4]][y[4]]>>

\* 2^r for r in 0..8
Pow2(r) == <<1, 2, 4, 8, 16, 32, 64, 128, 256>>[r + 1]

\* x << n on 32 bits, 0 <= n < 32: whole bytes move up by n \div 8, then each
\* byte takes the high bits of the byte below it; the bits shifted out are lost
ShlW(x, n) ==
    LET r == n % 8
        m == CASE n < 8  -> x
               [] n < 16 -> <<0, x[1], x[2], x[3]>>
               [] n < 24 -> <<0, 0, x[1], x[2]>>
               [] OTHER  -> <<0, 0, 0, x[1]>>
    IN  IF r = 0 THEN m
        ELSE <<(m[1] * Pow2(r)) % 256,
               ((m[2] * Pow2(r)) % 256) + (m[1] \div Pow2(8 - r)),
               ((m[3] * Pow2(r)) % 256) + (m[2] \div Pow2(8 - r)),
               ((m[4] * Pow2(r)) % 256) + (m[3] \div Pow2(8 - r))>>

\* x >> n on 32 bits (logical: the operand is unsigned), 0 <= n < 32
ShrW(x, n) ==
    LET r == n % 8
        m == CASE n < 8  -> x
               [] n < 16 -> <<x[2], x[3], x[4], 0>>
               [] n < 24 -> <<x[3], x[4], 0, 0>>
               [] OTHER  -> <<x[4], 0, 0, 0>>
    IN  IF r = 0 THEN m
        ELSE <<(m[1] \div Pow2(r)) + ((m[2] * Pow2(8 - r)) % 256),
               (m[2] \div Pow2(r)) + ((m[3] * Pow2(8 - r)) % 256),
               (m[3] \div Pow2(r)) + ((m[4] * Pow2(8 - r)) % 256),
               m[4] \div Pow2(r)>>

\* x * m modulo 2^32 for a multiplier m < 256: schoolbook, carry into the next byte
MulW(x, m) ==
    LET t1 == x[1] * m
        t2 == x[2] * m + (t1 \div 256)
        t3 == x[3] * m + (t2 \div 256)
        t4 == x[4] * m + (t3 \div 256)
    IN  <<t1 % 256, t2 % 256, t3 % 256, t4 % 256>>

MASK32_BYTE0 == <<255, 0, 0, 0>>

MASK32_BYTE1 == <<0, 255, 0, 0>>

MASK32_BYTE2 == <<0, 0, 255, 0>>

MASK32_BYTE3 == <<0, 0, 0, 255>>

INVMASK32_BYTE0 == <<0, 255, 255, 255>>

INVMASK32_BYTE1 == <<255, 0, 255, 255>>

INVMASK32_BYTE2 == <<255, 255, 0, 255>>

INVMASK32_BYTE3 == <<255, 255, 255, 0>>

OFS32_BYTE0 == 0

OFS32_BYTE1 == 8

OFS32_BYTE2 == 16

OFS32_BYTE3 == 24

(***************************************************************************)
(* Build configuration.                                                    *)
(***************************************************************************)
Builds == {"AES128", "AES192", "AES256"}

Nb == 4

Nk == CASE build = "AES256" -> 8 [] build = "AES192" -> 6 [] OTHER -> 4

Nr == CASE build = "AES256" -> 14 [] build = "AES192" -> 12 [] OTHER -> 10

AES_BLOCKLEN == 16

AES_KEYLEN == 4 * Nk

(***************************************************************************)
(* Lookup tables.                                                          *)
(***************************************************************************)
sbox == <<
     99, 124, 119, 123, 242, 107, 111, 197,  48,   1, 103,  43, 254, 215, 171, 118,
    202, 130, 201, 125, 250,  89,  71, 240, 173, 212, 162, 175, 156, 164, 114, 192,
    183, 253, 147,  38,  54,  63, 247, 204,  52, 165, 229, 241, 113, 216,  49,  21,
      4, 199,  35, 195,  24, 150,   5, 154,   7,  18, 128, 226, 235,  39, 178, 117,
      9, 131,  44,  26,  27, 110,  90, 160,  82,  59, 214, 179,  41, 227,  47, 132,
     83, 209,   0, 237,  32, 252, 177,  91, 106, 203, 190,  57,  74,  76,  88, 207,
    208, 239, 170, 251,  67,  77,  51, 133,  69, 249,   2, 127,  80,  60, 159, 168,
     81, 163,  64, 143, 146, 157,  56, 245, 188, 182, 218,  33,  16, 255, 243, 210,
    205,  12,  19, 236,  95, 151,  68,  23, 196, 167, 126,  61, 100,  93,  25, 115,
     96, 129,  79, 220,  34,  42, 144, 136,  70, 238, 184,  20, 222,  94,  11, 219,
    224,  50,  58,  10,  73,   6,  36,  92, 194, 211, 172,  98, 145, 149, 228, 121,
    231, 200,  55, 109, 141, 213,  78, 169, 108,  86, 244, 234, 101, 122, 174,   8,
    186, 120,  37,  46,  28, 166, 180, 198, 232, 221, 116,  31,  75, 189, 139, 138,
    112,  62, 181, 102,  72,   3, 246,  14,  97,  53,  87, 185, 134, 193,  29, 158,
    225, 248, 152,  17, 105, 217, 142, 148, 155,  30, 135, 233, 206,  85,  40, 223,
    140, 161, 137,  13, 191, 230,  66, 104,  65, 153,  45,  15, 176,  84, 187,  22 >>

rsbox == <<
     82,   9, 106, 213,  48,  54, 165,  56, 191,  64, 163, 158, 129, 243, 215, 251,
    124, 227,  57, 130, 155,  47, 255, 135,  52, 142,  67,  68, 196, 222, 233, 203,
     84, 123, 148,  50, 166, 194,  35,  61, 238,  76, 149,  11,  66, 250, 195,  78,
      8,  46, 161, 102,  40, 217,  36, 178, 118,  91, 162,  73, 109, 139, 209,  37,
    114, 248, 246, 100, 134, 104, 152,  22, 212, 164,  92, 204,  93, 101, 182, 146,
    108, 112,  72,  80, 253, 237, 185, 218,  94,  21,  70,  87, 167, 141, 157, 132,
    144, 216, 171,   0, 140, 188, 211,  10, 247, 228,  88,   5, 184, 179,  69,   6,
    208,  44,  30, 143, 202,  63,  15,   2, 193, 175, 189,   3,   1,  19, 138, 107,
     58, 145,  17,  65,  79, 103, 220, 234, 151, 242, 207, 206, 240, 180, 230, 115,
    150, 172, 116,  34, 231, 173,  53, 133, 226, 249,  55, 232,  28, 117, 223, 110,
     71, 241,  26, 113,  29,  41, 197, 137, 111, 183,  98,  14, 170,  24, 190,  27,
    252,  86,  62,  75, 198, 210, 121,  32, 154, 219, 192, 254, 120, 205,  90, 244,
     31, 221, 168,  51, 136,   7, 199,  49, 177,  18,  16,  89,  39, 128, 236,  95,
     96,  81, 127, 169,  25, 181,  74,  13,  45, 229, 122, 159, 147, 201, 156, 239,
    160, 224,  59,  77, 174,  42, 245, 176, 200, 235, 187,  60, 131,  83, 153,  97,
     23,  43,   4, 126, 186, 119, 214,  38, 225, 105,  20,  99,  85,  33,  12, 125 >>

Rcon == <<
    141,   1,   2,   4,   8,  16,  32,  64, 128,  27,  54 >>

getSBoxValue(num) == sbox[num + 1]

getRconValue(num) == Rcon[num + 1]

getSBoxInvert(num) == rsbox[num + 1]

(***************************************************************************)
(* Key schedule.                                                           *)
(***************************************************************************)
\* bytes 4k .. 4k+3 of a byte array, as the word the union shows there
WordAt(bytes, k) == <<bytes[4 * k + 1], bytes[4 * k + 2], bytes[4 * k + 3], bytes[4 * k + 4]>>

\* Function RotWord(): temp.a[0] is saved, temp.i is shifted, temp.a[3] is set
RotWord(temp) ==
    LET u8tmp == temp[1]
        shifted == ShrW(temp, 8)
    IN  [shifted EXCEPT ![4] = u8tmp]

\* Function Subword(): the four substituted bytes, each shifted to its place
SubWord(temp) ==
    OrW(OrW(ShlW(<<getSBoxValue(temp[1]), 0, 0, 0>>, OFS32_BYTE0),
            ShlW(<<getSBoxValue(temp[2]), 0, 0, 0>>, OFS32_BYTE1)),
        OrW(ShlW(<<getSBoxValue(temp[3]), 0, 0, 0>>, OFS32_BYTE2),
            ShlW(<<getSBoxValue(temp[4]), 0, 0, 0>>, OFS32_BYTE3)))

\* the second SubWord is applied in every build
KeyExpansionTemp_SubWordAnyBuild(RoundKey, i) ==
    Bind(RoundKey[(i - 1) + 1], LAMBDA temp0 :
    Bind(IF i % Nk = 0
         THEN Bind(SubWord(RotWord(temp0)), LAMBDA sub :
                   [sub EXCEPT ![1] = Xor8(sub[1], getRconValue(i \div Nk))])
         ELSE temp0, LAMBDA temp1 :
    IF i % Nk = 4 THEN SubWord(temp1) ELSE temp1))

\* the value of temp when the body of the loop reaches its last statement
KeyExpansionTemp(RoundKey, i) ==
    Bind(RoundKey[(i - 1) + 1], LAMBDA temp0 :
    Bind(IF i % Nk = 0
         THEN Bind(SubWord(RotWord(temp0)), LAMBDA sub :
                   [sub EXCEPT ![1] = Xor8(sub[1], getRconValue(i \div Nk))])
         ELSE temp0, LAMBDA temp1 :
    IF build = "AES256" /\ i % Nk = 4 THEN SubWord(temp1) ELSE temp1))

\* the passes of the loop for i = from .. to - 1, in order: one pass writes
\* RoundKey->i[i]; a longer run is its first half followed by its second half
RECURSIVE KeyExpansionPasses(_, _, _)
KeyExpansionPasses(w, from, to) ==
    IF to - from <= 1
    THEN IF from < to
         THEN Bind(KeyExpansionTemp(w, from), LAMBDA temp :
                   Append(w, XorW(w[(from - Nk) + 1], temp)))
         ELSE w
    ELSE Bind(KeyExpansionPasses(w, from, from + ((to - from) \div 2)), LAMBDA written :
              KeyExpansionPasses(written, from + ((to - from) \div 2), to))

\* the words RoundKey->i[0 .. i-1] are in w; the loop writes i[i], i[i+1], ...
\* while i < Nb * (Nr + 1)
KeyExpansionLoop(w, i) ==
    IF i < Nb * (Nr + 1) THEN KeyExpansionPasses(w, i, Nb * (Nr + 1)) ELSE w

\* memcpy(RoundKey, Key, 4 * Nk), then the loop from i = Nk; the words of the
\* array beyond 4 * (Nr + 1), if any, keep what they held
RECURSIVE KeyWords(_, _)
KeyWords_FromSecondWord(Key, n) == [k \in 1..n |-> WordAt(Key, k)]

KeyWords(Key, n) == IF n = 0 THEN <<>> ELSE Append(KeyWords(Key, n - 1), WordAt(Key, n - 1))

KeyExpansion(RoundKey, Key) ==
    Bind(KeyExpansionLoop(KeyWords(Key, Nk), Nk), LAMBDA w :
         w \o SubSeq(RoundKey, Len(w) + 1, Len(RoundKey)))

(***************************************************************************)
(* Round transform.  A state is the tuple of its four words i[0..3].       *)
(***************************************************************************)
AddRoundKey(round, state, RoundKey) ==
    LET word(i) == XorW(state[i + 1], RoundKey[((round * Nb) + i) + 1])
    IN  <<word(0), word(1), word(2), word(3)>>

SubBytes(state) ==
    LET word(i) ==
            LET tmp == state[i + 1]
            IN  OrW(OrW(ShlW(<<getSBoxValue(tmp[1]), 0, 0, 0>>, OFS32_BYTE0),
                        ShlW(<<getSBoxValue(tmp[2]), 0, 0, 0>>, OFS32_BYTE1)),
                    OrW(ShlW(<<getSBoxValue(tmp[3]), 0, 0, 0>>, OFS32_BYTE2),
                        ShlW(<<getSBoxValue(tmp[4]), 0, 0, 0>>, OFS32_BYTE3)))
    IN  <<word(0), word(1), word(2), word(3)>>

\* "dst &= inv; dst |= src & mask"
Put(dst, src, mask, inv) == OrW(AndW(dst, inv), AndW(src, mask))

ShiftRows(state) ==
    LET \* row 1
        tempA == AndW(state[1], MASK32_BYTE1)
        a0 == Put(state[1], state[2], MASK32_BYTE1, INVMASK32_BYTE1)
        a1 == Put(state[2], state[3], MASK32_BYTE1, INVMASK32_BYTE1)
        a2 == Put(state[3], state[4], MASK32_BYTE1, INVMASK32_BYTE1)
        a3 == OrW(AndW(state[4], INVMASK32_BYTE1), tempA)
        \* row 2
        tempB == AndW(a0, MASK32_BYTE2)
        b0 == Put(a0, a2, MASK32_BYTE2, INVMASK32_BYTE2)
        b2 == OrW(AndW(a2, INVMASK32_BYTE2), tempB)
        tempC == AndW(a1, MASK32_BYTE2)
        b1 == Put(a1, a3, MASK32_BYTE2, INVMASK32_BYTE2)
        b3 == OrW(AndW(a3, INVMASK32_BYTE2), tempC)
        \* row 3
        tempD == AndW(b0, MASK32_BYTE3)
        c0 == Put(b0, b3, MASK32_BYTE3, INVMASK32_BYTE3)
        c3 == Put(b3, b2, MASK32_BYTE3, INVMASK32_BYTE3)
        c2 == Put(b2, b1, MASK32_BYTE3, INVMASK32_BYTE3)
        c1 == OrW(AndW(b1, INVMASK32_BYTE3), tempD)
    IN  <<c0, c1, c2, c3>>

\* the doubling reduced by 0x1d instead of 0x1b
xtime_WrongPoly(x) ==
    XorW(ShlW(AndW(x, <<127, 127, 127, 127>>), 1),
         MulW(ShrW(AndW(x, <<128, 128, 128, 128>>), 7), 29))

xtime(x) ==
    XorW(ShlW(AndW(x, <<127, 127, 127, 127>>), 1),
         MulW(ShrW(AndW(x, <<128, 128, 128, 128>>), 7), 27))

MixColumns(state) ==
    LET word(i) ==
            LET sp == state[i + 1]
            IN  XorW(XorW(xtime(XorW(sp, OrW(ShrW(sp, 8), ShlW(sp, 24)))),
                          OrW(ShlW(sp, 8), ShrW(sp, 24))),
                     XorW(OrW(ShlW(sp, 16), ShrW(sp, 16)),
                          OrW(ShlW(sp, 24), ShrW(sp, 8))))
    IN  <<word(0), word(1), word(2), word(3)>>

\* the body of the loop of InvMixColumns, for the word spVal
InvMixColumnsWord(spVal) ==
    Bind(xtime(spVal), LAMBDA xtimeX :
    Bind(xtime(xtimeX), LAMBDA xtimeXX :
    Bind(xtime(xtimeXX), LAMBDA xtimeXXX :
    Bind(XorW(xtimeXXX, spVal), LAMBDA xtime_x9 :
    Bind(XorW(XorW(xtimeXXX, xtimeX), spVal), LAMBDA xtime_xb :
    Bind(XorW(XorW(xtimeXXX, xtimeXX), spVal), LAMBDA xtime_xd :
    Bind(XorW(XorW(xtimeXXX, xtimeXX), xtimeX), LAMBDA xtime_xe :
    Bind(ShrW(xtime_xb, 8), LAMBDA xtime_xb_r8 :
    Bind(ShrW(xtime_xd, 16), LAMBDA xtime_xd_r16 :
    Bind(ShlW(xtime_x9, 8), LAMBDA xtime_x9_l8 :
    Bind(ShlW(xtime_xd, 16), LAMBDA xtime_xd_l16 :
        OrW(OrW(AndW(XorW(XorW(xtime_xe, xtime_xb_r8), XorW(xtime_xd_r16, ShrW(xtime_x9, 24))),
                     MASK32_BYTE0),
                AndW(XorW(XorW(xtime_x9_l8, xtime_xe), XorW(xtime_xb_r8, xtime_xd_r16)),
                     MASK32_BYTE1)),
            OrW(AndW(XorW(XorW(xtime_xd_l16, xtime_x9_l8), XorW(xtime_xe, xtime_xb_r8)),
                     MASK32_BYTE2),
                AndW(XorW(XorW(ShlW(xtime_xb, 24), xtime_xd_l16), XorW(xtime_x9_l8, xtime_xe)),
                     MASK32_BYTE3)))
    )))))))))))

InvMixColumns(state) ==
    <<InvMixColumnsWord(state[1]), InvMixColumnsWord(state[2]),
      InvMixColumnsWord(state[3]), InvMixColumnsWord(state[4])>>

InvSubBytes(state) ==
    LET word(i) ==
            LET tmp == state[i + 1]
            IN  OrW(OrW(ShlW(<<getSBoxInvert(tmp[1]), 0, 0, 0>>, OFS32_BYTE0),
                        ShlW(<<getSBoxInvert(tmp[2]), 0, 0, 0>>, OFS32_BYTE1)),
                    OrW(ShlW(<<getSBoxInvert(tmp[3]), 0, 0, 0>>, OFS32_BYTE2),
                        ShlW(<<getSBoxInvert(tmp[4]), 0, 0, 0>>, OFS32_BYTE3)))
    IN  <<word(0), word(1), word(2), word(3)>>

\* the rows rotated the way encryption rotates them
InvShiftRows_Forward(state) == ShiftRows(state)

InvShiftRows(state) ==
    LET \* row 1
        tempA == AndW(state[4], MASK32_BYTE1)
        a3 == Put(state[4], state[3], MASK32_BYTE1, INVMASK32_BYTE1)
        a2 == Put(state[3], state[2], MASK32_BYTE1, INVMASK32_BYTE1)
        a1 == Put(state[2], state[1], MASK32_BYTE1, INVMASK32_BYTE1)
        a0 == OrW(AndW(state[1], INVMASK32_BYTE1), tempA)
        \* row 2
        tempB == AndW(a0, MASK32_BYTE2)
        b0 == Put(a0, a2, MASK32_BYTE2, INVMASK32_BYTE2)
        b2 == OrW(AndW(a2, INVMASK32_BYTE2), tempB)
        tempC == AndW(a1, MASK32_BYTE2)
        b1 == Put(a1, a3, MASK32_BYTE2, INVMASK32_BYTE2)
        b3 == OrW(AndW(a3, INVMASK32_BYTE2), tempC)
        \* row 3
        tempD == AndW(b0, MASK32_BYTE3)
        c0 == Put(b0, b1, MASK32_BYTE3, INVMASK32_BYTE3)
        c1 == Put(b1, b2, MASK32_BYTE3, INVMASK32_BYTE3)
        c2 == Put(b2, b3, MASK32_BYTE3, INVMASK32_BYTE3)
        c3 == OrW(AndW(b3, INVMASK32_BYTE3), tempD)
    IN  <<c0, c1, c2, c3>>

(***************************************************************************)
(* Block cipher.                                                           *)
(***************************************************************************)
\* the loop of Cipher from the top of its body at `round`, up to the break
\* the passes of the loop that do not break, for round = from .. to - 1
RECURSIVE CipherRounds(_, _, _, _)
CipherRounds(state, from, to, RoundKey) ==
    IF to - from <= 1
    THEN IF from < to
         THEN Bind(SubBytes(state), LAMBDA subbed :
              Bind(ShiftRows(subbed), LAMBDA shifted :
              Bind(MixColumns(shifted), LAMBDA mixed :
                   AddRoundKey(from, mixed, RoundKey))))
         ELSE state
    ELSE Bind(CipherRounds(state, from, from + ((to - from) \div 2), RoundKey), LAMBDA done :
              CipherRounds(done, from + ((to - from) \div 2), to, RoundKey))

CipherLoop(state, round, RoundKey) ==
    Bind(CipherRounds(state, round, Nr, RoundKey), LAMBDA last :
    Bind(SubBytes(last), LAMBDA subbed :
         ShiftRows(subbed)))

Cipher(state, RoundKey) ==
    Bind(AddRoundKey(0, state, RoundKey), LAMBDA first :
    Bind(CipherLoop(first, 1, RoundKey), LAMBDA last :
         AddRoundKey(Nr, last, RoundKey)))

\* the loop of InvCipher from the top of its body at `round`, up to the break
\* the passes of the loop that do not break, for round = from down to to + 1
RECURSIVE InvCipherRounds(_, _, _, _)
InvCipherRounds(state, from, to, RoundKey) ==
    IF from - to <= 1
    THEN IF from > to
         THEN Bind(InvShiftRows(state), LAMBDA shifted :
              Bind(InvSubBytes(shifted), LAMBDA subbed :
              Bind(AddRoundKey(from, subbed, RoundKey), LAMBDA added :
                   InvMixColumns(added))))
         ELSE state
    ELSE Bind(InvCipherRounds(state, from, from - ((from - to) \div 2), RoundKey), LAMBDA done :
              InvCipherRounds(done, from - ((from - to) \div 2), to, RoundKey))

InvCipherLoop(state, round, RoundKey) ==
    Bind(InvCipherRounds(state, round, 0, RoundKey), LAMBDA last :
    Bind(InvShiftRows(last), LAMBDA shifted :
    Bind(InvSubBytes(shifted), LAMBDA subbed :
         AddRoundKey(0, subbed, RoundKey))))

InvCipher(state, RoundKey) ==
    Bind(AddRoundKey(Nr, state, RoundKey), LAMBDA first :
         InvCipherLoop(first, Nr - 1, RoundKey))

\* (state_t*)buf: sixteen bytes seen as a state, and back
AsState(bytes) == <<WordAt(bytes, 0), WordAt(bytes, 1), WordAt(bytes, 2), WordAt(bytes, 3)>>

\* the words of a byte string whose length is a multiple of four
AsStateWords(bytes) == [k \in 1..(Len(bytes) \div 4) |-> WordAt(bytes, k - 1)]

AsBytes(state) == state[1] \o state[2] \o state[3] \o state[4]

(***************************************************************************)
(* Context initialisation.  A context is [RoundKey, Iv]: the words of the  *)
(* key schedule and the sixteen bytes of the chaining value.               *)
(***************************************************************************)
AES_init_ctx(c, key) == [c EXCEPT !.RoundKey = KeyExpansion(c.RoundKey, key)]

AES_init_ctx_iv(c, key, iv) ==
    [RoundKey |-> KeyExpansion(c.RoundKey, key), Iv |-> SubSeq(iv, 1, AES_BLOCKLEN)]

\* the iv is copied to the start of the context instead of to its Iv field
AES_ctx_set_iv_IntoSchedule(c, iv) ==
    [c EXCEPT !.RoundKey = <<WordAt(iv, 0), WordAt(iv, 1), WordAt(iv, 2), WordAt(iv, 3)>>
                               \o SubSeq(c.RoundKey, 5, Len(c.RoundKey))]

AES_ctx_set_iv(c, iv) == [c EXCEPT !.Iv = SubSeq(iv, 1, AES_BLOCKLEN)]

(***************************************************************************)
(* Mode drivers.  `mem` is the memory at the pointer buf: the caller's     *)
(* storage and whatever follows it; offsets are C offsets from buf.        *)
(***************************************************************************)
\* the sixteen bytes at offset ofs
BlockAt(mem, ofs) == SubSeq(mem, ofs + 1, ofs + AES_BLOCKLEN)

\* mem with the sixteen bytes at offset ofs replaced by block
PutBlock(mem, ofs, block) ==
    SubSeq(mem, 1, ofs) \o block \o SubSeq(mem, ofs + AES_BLOCKLEN + 1, Len(mem))

AES_ECB_encrypt(c, mem) == PutBlock(mem, 0, AsBytes(Cipher(AsState(BlockAt(mem, 0)), c.RoundKey)))

AES_ECB_decrypt(c, mem) == PutBlock(mem, 0, AsBytes(InvCipher(AsState(BlockAt(mem, 0)), c.RoundKey)))

\* buf[i] ^= Iv[i] for i = 0 .. AES_BLOCKLEN - 1
XorWithIv(block, Iv) ==
    LET x(i) == Xor8(block[i + 1], Iv[i + 1])
    IN  <<x(0), x(1), x(2), x(3), x(4), x(5), x(6), x(7),
          x(8), x(9), x(10), x(11), x(12), x(13), x(14), x(15)>>

\* the loop runs only while a whole block is left below length
RECURSIVE CBCEncryptLoop_StopsShort(_, _, _, _, _)
CBCEncryptLoop_StopsShort(c, mem, i, IvPtr, length) ==
    Bind(IF IvPtr = -1 THEN c.Iv ELSE BlockAt(mem, IvPtr), LAMBDA Iv :
         IF i + AES_BLOCKLEN <= length
         THEN Bind(XorWithIv(BlockAt(mem, i), Iv), LAMBDA xored :
              Bind(PutBlock(mem, i, AsBytes(Cipher(AsState(xored), c.RoundKey))), LAMBDA written :
                   CBCEncryptLoop_StopsShort(c, written, i + AES_BLOCKLEN, i, length)))
         ELSE [ctx |-> [c EXCEPT !.Iv = Iv], mem |-> mem])

\* The loop of AES_CBC_encrypt_buffer at the test of i < length.  The local Iv
\* is a pointer: into the context (IvPtr = -1) or to offset IvPtr of the buffer.
RECURSIVE CBCEncryptLoop(_, _, _, _, _)
CBCEncryptLoop(c, mem, i, IvPtr, length) ==
    Bind(IF IvPtr = -1 THEN c.Iv ELSE BlockAt(mem, IvPtr), LAMBDA Iv :
         IF i < length
         THEN Bind(XorWithIv(BlockAt(mem, i), Iv), LAMBDA xored :
              Bind(PutBlock(mem, i, AsBytes(Cipher(AsState(xored), c.RoundKey))), LAMBDA written :
                   CBCEncryptLoop(c, written, i + AES_BLOCKLEN, i, length)))
         ELSE \* store Iv in ctx for next call: memcpy(ctx->Iv, Iv, AES_BLOCKLEN)
              [ctx |-> [c EXCEPT !.Iv = Iv], mem |-> mem])

\* the loop's last ciphertext block is not copied into the context
AES_CBC_encrypt_buffer_IvNotStored(c, mem, length) ==
    [ctx |-> c, mem |-> CBCEncryptLoop(c, mem, 0, -1, length).mem]

AES_CBC_encrypt_buffer(c, mem, length) == CBCEncryptLoop(c, mem, 0, -1, length)

\* The loop of AES_CBC_decrypt_buffer at the test of i < length.
RECURSIVE CBCDecryptLoop(_, _, _, _)
CBCDecryptLoop(c, mem, i, length) ==
    IF i < length
    THEN Bind(BlockAt(mem, i), LAMBDA storeNextIv :
         Bind(AsBytes(InvCipher(AsState(BlockAt(mem, i)), c.RoundKey)), LAMBDA decrypted :
         Bind(PutBlock(mem, i, XorWithIv(decrypted, c.Iv)), LAMBDA written :
         Bind([c EXCEPT !.Iv = storeNextIv], LAMBDA c1 :
              CBCDecryptLoop(c1, written, i + AES_BLOCKLEN, length)))))
    ELSE [ctx |-> c, mem |-> mem]

\* the chaining value of the last block is not stored
AES_CBC_decrypt_buffer_IvNotStored(c, mem, length) ==
    [ctx |-> c, mem |-> CBCDecryptLoop(c, mem, 0, length).mem]

AES_CBC_decrypt_buffer(c, mem, length) == CBCDecryptLoop(c, mem, 0, length)

\* the last byte wraps without a carry into the byte before it
IncrementIv_NoCarry(Iv, bi) == [Iv EXCEPT ![bi + 1] = (Iv[bi + 1] + 1) % 256]

\* "Increment Iv and handle overflow": the loop over bi from AES_BLOCKLEN - 1 down
RECURSIVE IncrementIv(_, _)
IncrementIv(Iv, bi) ==
    IF bi >= 0
    THEN IF Iv[bi + 1] = 255
         THEN IncrementIv([Iv EXCEPT ![bi + 1] = 0], bi - 1)
         ELSE [Iv EXCEPT ![bi + 1] = (Iv[bi + 1] + 1) % 256]
    ELSE Iv

\* One pass through the body of the loop of AES_CTR_xcrypt_buffer: buffer is the
\* local keystream block, bi the index of its next byte.
CTRStep(c, mem, i, bi, buffer) ==
    IF bi = AES_BLOCKLEN
    THEN Bind(AsBytes(Cipher(AsState(c.Iv), c.RoundKey)), LAMBDA fresh :
              [ctx |-> [c EXCEPT !.Iv = IncrementIv(c.Iv, AES_BLOCKLEN - 1)],
               mem |-> [mem EXCEPT ![i + 1] = Xor8(mem[i + 1], fresh[1])],
               bi |-> 1, buffer |-> fresh])
    ELSE [ctx |-> c,
          mem |-> [mem EXCEPT ![i + 1] = Xor8(mem[i + 1], buffer[bi + 1])],
          bi |-> bi + 1, buffer |-> buffer]

\* The loop of AES_CTR_xcrypt_buffer at the test of i < length.
\* The passes for i .. length - 1, in order: a run of several passes is its
\* first half followed by its second half.
RECURSIVE CTRPasses(_, _, _, _, _, _)
CTRPasses(c, mem, i, bi, buffer, length) ==
    IF length - i <= 1
    THEN IF i < length
         THEN CTRStep(c, mem, i, bi, buffer)
         ELSE [ctx |-> c, mem |-> mem, bi |-> bi, buffer |-> buffer]
    ELSE Bind(CTRPasses(c, mem, i, bi, buffer, i + ((length - i) \div 2)), LAMBDA s :
              CTRPasses(s.ctx, s.mem, i + ((length - i) \div 2), s.bi, s.buffer, length))

CTRLoop(c, mem, i, bi, buffer, length) ==
    Bind(CTRPasses(c, mem, i, bi, buffer, length), LAMBDA s :
         [ctx |-> s.ctx, mem |-> s.mem])

\* only the whole blocks below length are processed
AES_CTR_xcrypt_buffer_WholeBlocksOnly(c, mem, length) ==
    CTRLoop(c, mem, 0, AES_BLOCKLEN, <<>>, (length \div AES_BLOCKLEN) * AES_BLOCKLEN)

\* the local buffer is not initialised: it is written before its first read
\* because bi starts at AES_BLOCKLEN
AES_CTR_xcrypt_buffer(c, mem, length) == CTRLoop(c, mem, 0, AES_BLOCKLEN, <<>>, length)

(***************************************************************************)
(* Inputs: the keys, chaining values and messages of NIST SP 800-38A       *)
(* (the ECB-AES128 vector is the one of the file header), and values that  *)
(* make the counter carry and wrap.                                        *)
(***************************************************************************)
Key128 == <<43, 126, 21, 22, 40, 174, 210, 166, 171, 247, 21, 136, 9, 207, 79, 60>>

KeySeq128 == <<0, 1, 2, 3, 4, 5, 6, 7, 8, 9, 10, 11, 12, 13, 14, 15>>

Key192 == <<142, 115, 176, 247, 218, 14, 100, 82, 200, 16, 243, 43,
            128, 144, 121, 229, 98, 248, 234, 210, 82, 44, 107, 123>>

Key256 == <<96, 61, 235, 16, 21, 202, 113, 190, 43, 115, 174, 240, 133, 125, 119, 129,
            31, 53, 44, 7, 59, 97, 8, 215, 45, 152, 16, 163, 9, 20, 223, 244>>

Keys == CASE build = "AES256" -> {Key256}
          [] build = "AES192" -> {Key192}
          [] OTHER -> {Key128, KeySeq128}

\* f0f1...feff: incrementing it carries out of byte 15
IvCarry == <<240, 241, 242, 243, 244, 245, 246, 247, 248, 249, 250, 251, 252, 253, 254, 255>>

\* the largest counter: incrementing it wraps to zero
IvMax == <<255, 255, 255, 255, 255, 255, 255, 255, 255, 255, 255, 255, 255, 255, 255, 255>>

IVs == {IvCarry, IvMax}

Plain1 == <<107, 193, 190, 226, 46, 64, 159, 150, 233, 61, 126, 17, 115, 147, 23, 42>>

Plain2 == <<174, 45, 138, 87, 30, 3, 172, 156, 158, 183, 111, 172, 69, 175, 142, 81>>

Plain3 == <<48, 200, 28, 70, 163, 92, 228, 17, 229, 251, 193, 25, 26, 10, 82, 239>>

Plain4 == <<246, 159, 36, 69, 223, 79, 155, 23, 173, 43, 65, 123, 230, 108, 55, 16>>

\* what the caller has in its buffer: ECB callers two blocks, CBC callers whole
\* blocks or nothing, CTR callers any number of bytes
Messages ==
    CASE mode = "ECB" -> {Plain1 \o Plain2, Plain3 \o Plain4}
      [] mode = "CBC" -> {<<>>, Plain1, Plain1 \o Plain2}
      [] OTHER -> {<<>>, SubSeq(Plain1, 1, 5), Plain1 \o SubSeq(Plain2, 1, 5), Plain1 \o Plain2}

\* struct AES_ctx before initialisation; the callers below write every field
\* before the library reads it, so what it holds is never observed
Uninit == [RoundKey |-> [k \in 1..(Nb * (Nr + 1)) |-> <<0, 0, 0, 0>>],
           Iv |-> [k \in 1..AES_BLOCKLEN |-> 0]]

MaxCalls == 4

Modes == {"ECB", "CBC", "CTR"}

(***************************************************************************)
(* The calls of one caller on one context and one buffer.  The caller      *)
(* initialises its context once, uses it in one mode, and passes its whole *)
(* buffer (ECB: one block of it).  hist records every call: its arguments, *)
(* the chaining value and the buffer before and after it, and for the      *)
(* initialisation the schedule it derived.                                 *)
(***************************************************************************)
Call(op, length, ofs, arg, c0, b0, c1, b1) ==
    [op |-> op, length |-> length, ofs |-> ofs, arg |-> arg,
     ivIn |-> c0.Iv, bufIn |-> b0, ivOut |-> c1.Iv, bufOut |-> b1]

Idle == UNCHANGED <<build, mode, adj, fault, ctxB, bufB, pc, st>>

MayCall == inited /\ ~fault /\ Len(hist) < MaxCalls

InitCtx ==
    /\ ~inited /\ mode = "ECB"
    /\ \E key \in Keys :
        /\ ctx' = AES_init_ctx(ctx, key)
        /\ hist' = Append(hist, Call("AES_init_ctx", 0, 0, [key |-> key, rk |-> ctx'.RoundKey],
                                     ctx, buf, ctx', buf))
    /\ inited' = TRUE
    /\ UNCHANGED buf
    /\ Idle

InitCtxIv ==
    /\ ~inited /\ mode # "ECB"
    /\ \E key \in Keys, iv \in IVs :
        /\ ctx' = AES_init_ctx_iv(ctx, key, iv)
        /\ hist' = Append(hist, Call("AES_init_ctx_iv", 0, 0, [key |-> key, rk |-> ctx'.RoundKey],
                                     ctx, buf, ctx', buf))
    /\ inited' = TRUE
    /\ UNCHANGED buf
    /\ Idle

CtxSetIv ==
    /\ MayCall /\ mode # "ECB"
    /\ \E iv \in IVs :
        /\ ctx' = AES_ctx_set_iv(ctx, iv)
        /\ hist' = Append(hist, Call("AES_ctx_set_iv", 0, 0, iv, ctx, buf, ctx', buf))
    /\ UNCHANGED <<inited, buf>>
    /\ Idle

\* the block offsets the caller may point an ECB call at
BlockOffsets(b) == {ofs \in 0..Len(b) : ofs % AES_BLOCKLEN = 0 /\ ofs + AES_BLOCKLEN <= Len(b)}

EcbEncrypt ==
    /\ MayCall /\ mode = "ECB"
    /\ \E ofs \in BlockOffsets(buf) :
        /\ buf' = SubSeq(buf, 1, ofs) \o AES_ECB_encrypt(ctx, SubSeq(buf, ofs + 1, Len(buf)))
        /\ hist' = Append(hist, Call("AES_ECB_encrypt", AES_BLOCKLEN, ofs, <<>>, ctx, buf, ctx, buf'))
    /\ UNCHANGED <<inited, ctx>>
    /\ Idle

EcbDecrypt ==
    /\ MayCall /\ mode = "ECB"
    /\ \E ofs \in BlockOffsets(buf) :
        /\ buf' = SubSeq(buf, 1, ofs) \o AES_ECB_decrypt(ctx, SubSeq(buf, ofs + 1, Len(buf)))
        /\ hist' = Append(hist, Call("AES_ECB_decrypt", AES_BLOCKLEN, ofs, <<>>, ctx, buf, ctx, buf'))
    /\ UNCHANGED <<inited, ctx>>
    /\ Idle

CbcEncrypt ==
    /\ MayCall /\ mode = "CBC"
    /\ \E r \in {AES_CBC_encrypt_buffer(ctx, buf, Len(buf))} :
        /\ ctx' = r.ctx
        /\ buf' = r.mem
        /\ hist' = Append(hist, Call("AES_CBC_encrypt_buffer", Len(buf), 0, <<>>, ctx, buf, ctx', buf'))
    /\ UNCHANGED inited
    /\ Idle

CbcDecrypt ==
    /\ MayCall /\ mode = "CBC"
    /\ \E r \in {AES_CBC_decrypt_buffer(ctx, buf, Len(buf))} :
        /\ ctx' = r.ctx
        /\ buf' = r.mem
        /\ hist' = Append(hist, Call("AES_CBC_decrypt_buffer", Len(buf), 0, <<>>, ctx, buf, ctx', buf'))
    /\ UNCHANGED inited
    /\ Idle

CtrXcrypt ==
    /\ MayCall /\ mode = "CTR"
    /\ \E r \in {AES_CTR_xcrypt_buffer(ctx, buf, Len(buf))} :
        /\ ctx' = r.ctx
        /\ buf' = r.mem
        /\ hist' = Append(hist, Call("AES_CTR_xcrypt_buffer", Len(buf), 0, <<>>, ctx, buf, ctx', buf'))
    /\ UNCHANGED inited
    /\ Idle

Init ==
    /\ build \in Builds
    /\ mode \in Modes
    /\ ctx = Uninit
    /\ inited = FALSE
    /\ buf \in Messages
    /\ adj = <<>>
    /\ hist = <<>>
    /\ fault = FALSE
    /\ ctxB = <<>>
    /\ bufB = <<>>
    /\ pc = <<>>
    /\ st = <<>>

Next ==
    \/ InitCtx
    \/ InitCtxIv
    \/ CtxSetIv
    \/ EcbEncrypt
    \/ EcbDecrypt
    \/ CbcEncrypt
    \/ CbcDecrypt
    \/ CtrXcrypt

Spec == Init /\ [][Next]_vars

(***************************************************************************)
(* Round trip                                                              *)
(***************************************************************************)
Encrypts == {"AES_ECB_encrypt", "AES_CBC_encrypt_buffer", "AES_CTR_xcrypt_buffer"}

Inverse(op) ==
    CASE op = "AES_ECB_encrypt" -> "AES_ECB_decrypt"
      [] op = "AES_CBC_encrypt_buffer" -> "AES_CBC_decrypt_buffer"
      [] OTHER -> "AES_CTR_xcrypt_buffer"

\* call j is handed the output of call i, under the same key and with the
\* chaining value call i started from
Undoes(i, j) ==
    /\ i < j
    /\ hist[i].op \in Encrypts
    /\ hist[j].op = Inverse(hist[i].op)
    /\ hist[j].ofs = hist[i].ofs
    /\ hist[j].length = hist[i].length
    /\ hist[j].bufIn = hist[i].bufOut
    /\ hist[i].op # "AES_ECB_encrypt" => hist[j].ivIn = hist[i].ivIn

\* C1: decrypting (ECB, CBC) or re-applying the keystream (CTR) to the output of
\* an encryption, with the same key and the same starting IV, gives back the
\* bytes the encryption was given, for every length the caller passes.
C1_RoundTrip ==
    \A i, j \in 1..Len(hist) : Undoes(i, j) => hist[j].bufOut = hist[i].bufIn

\* a message of more than one block was encrypted to something else and decrypted
C1_Witness ==
    \E i, j \in 1..Len(hist) :
        /\ Undoes(i, j)
        /\ hist[i].length > AES_BLOCKLEN
        /\ hist[i].bufOut # hist[i].bufIn
        /\ hist[j].bufOut = hist[i].bufIn

(***************************************************************************)
(* Known answers: NIST SP 800-38A, F.1.1 and F.1.2 (ECB-AES128)            *)
(***************************************************************************)
NistPlain == <<Plain1, Plain2, Plain3, Plain4>>

NistCipher == <<
    <<58, 215, 123, 180, 13, 122, 54, 96, 168, 158, 202, 243, 36, 102, 239, 151>>,
    <<245, 211, 213, 133, 3, 185, 105, 157, 231, 133, 137, 90, 150, 253, 186, 175>>,
    <<67, 177, 205, 127, 89, 142, 206, 35, 136, 27, 0, 227, 237, 3, 6, 136>>,
    <<123, 12, 120, 94, 39, 232, 173, 63, 130, 35, 32, 113, 4, 114, 93, 212>> >>

NistKeyed == build = "AES128" /\ inited /\ hist[1].arg.key = Key128

\* C2: in the 128-bit build under the key 2b7e1516 28aed2a6 abf71588 09cf4f3c,
\* AES_ECB_encrypt maps each of the four NIST plaintext blocks to its NIST
\* ciphertext block, and AES_ECB_decrypt maps each ciphertext block back.
C2_KnownAnswer ==
    NistKeyed =>
        \A k \in 1..Len(hist), n \in 1..4 :
            /\ (hist[k].op = "AES_ECB_encrypt" /\ BlockAt(hist[k].bufIn, hist[k].ofs) = NistPlain[n])
                   => BlockAt(hist[k].bufOut, hist[k].ofs) = NistCipher[n]
            /\ (hist[k].op = "AES_ECB_decrypt" /\ BlockAt(hist[k].bufIn, hist[k].ofs) = NistCipher[n])
                   => BlockAt(hist[k].bufOut, hist[k].ofs) = NistPlain[n]

\* the fourth NIST block was encrypted and its ciphertext decrypted
C2_Witness ==
    /\ NistKeyed
    /\ \E k, l \in 1..Len(hist) :
        /\ hist[k].op = "AES_ECB_encrypt"
        /\ BlockAt(hist[k].bufIn, hist[k].ofs) = NistPlain[4]
        /\ hist[l].op = "AES_ECB_decrypt"
        /\ BlockAt(hist[l].bufIn, hist[l].ofs) = NistCipher[4]

(***************************************************************************)
(* The CTR counter                                                         *)
(***************************************************************************)
\* counter + 1 modulo 2^128, the counter read as a big-endian integer: the
\* last byte that is not 0xFF goes up by one and the bytes after it become 0
CounterPlusOne(iv) ==
    LET low == {k \in 1..Len(iv) : iv[k] # 255}
    IN  IF low = {}
        THEN [k \in 1..Len(iv) |-> 0]
        ELSE LET p == CHOOSE k \in low : \A l \in low : l <= k
             IN  SubSeq(iv, 1, p - 1) \o <<iv[p] + 1>> \o [k \in 1..(Len(iv) - p) |-> 0]

RECURSIVE CounterPlus(_, _)
CounterPlus(iv, n) == IF n = 0 THEN iv ELSE CounterPlusOne(CounterPlus(iv, n - 1))

\* the bytes of a buffer that keystream block b covers in a call over length bytes
Covered(b, length) ==
    {i \in 0..(length - 1) : i \div AES_BLOCKLEN = b}

\* C4: a call of AES_CTR_xcrypt_buffer that needs m keystream blocks encrypts
\* counter, counter + 1, ..., counter + m - 1 (each + 1 a big-endian increment
\* modulo 2^128 with byte-wise carry), XORs the data with them, and leaves
\* counter + m in the context; from sixteen 0xFF bytes the counter goes to
\* sixteen 0x00 bytes and the call completes.
C4_CounterIncrement ==
    (hist # <<>> /\ hist[Len(hist)].op = "AES_CTR_xcrypt_buffer") =>
        LET e == hist[Len(hist)]
            m == (e.length + AES_BLOCKLEN - 1) \div AES_BLOCKLEN
        IN  /\ e.ivOut = CounterPlus(e.ivIn, m)
            /\ ctx.Iv = e.ivOut
            /\ Len(e.bufOut) = Len(e.bufIn)
            /\ \A b \in 0..(m - 1) :
                LET counter == CounterPlus(e.ivIn, b)
                    keystream == AsBytes(Cipher(AsState(counter), ctx.RoundKey))
                IN  \A i \in Covered(b, e.length) :
                        e.bufOut[i + 1] = Xor8(e.bufIn[i + 1], keystream[(i % AES_BLOCKLEN) + 1])

\* a call that started from sixteen 0xFF bytes went on to a second keystream
\* block and left the counter at 1
C4_Witness ==
    /\ hist # <<>>
    /\ hist[Len(hist)].op = "AES_CTR_xcrypt_buffer"
    /\ hist[Len(hist)].ivIn = IvMax
    /\ hist[Len(hist)].length > AES_BLOCKLEN
    /\ ctx.Iv = <<0, 0, 0, 0, 0, 0, 0, 0, 0, 0, 0, 0, 0, 0, 0, 1>>

(***************************************************************************)
(* What the calls leave alone                                              *)
(***************************************************************************)
\* C6: after initialisation with key K every sequence of calls leaves
\* ctx->RoundKey equal to KeyExpansion(K); AES_ctx_set_iv sets the chaining
\* value to the given iv and changes nothing else; AES_ECB_encrypt and
\* AES_ECB_decrypt change neither the schedule nor the chaining value.
C6_ScheduleImmutable ==
    inited =>
        /\ ctx.RoundKey = hist[1].arg.rk
        /\ ctx.RoundKey = KeyExpansion(Uninit.RoundKey, hist[1].arg.key)
        /\ \A k \in 2..Len(hist) :
            /\ hist[k].op = "AES_ctx_set_iv" =>
                (hist[k].ivOut = hist[k].arg /\ hist[k].bufOut = hist[k].bufIn)
            /\ hist[k].op \in {"AES_ECB_encrypt", "AES_ECB_decrypt"} =>
                hist[k].ivOut = hist[k].ivIn

\* the chaining value was replaced by a different one between two other calls
C6_Witness ==
    /\ inited
    /\ \E k \in 3..(Len(hist) - 1) :
        /\ hist[k].op = "AES_ctx_set_iv"
        /\ hist[k].ivOut # hist[k].ivIn
        /\ hist[k - 1].op # "AES_ctx_set_iv"
        /\ hist[k + 1].op # "AES_ctx_set_iv"

(***************************************************************************)
(* The CBC chaining value                                                  *)
(***************************************************************************)
LastBlock(mem, length) == SubSeq(mem, length - AES_BLOCKLEN + 1, length)

\* C8: after AES_CBC_encrypt_buffer over n >= 1 blocks ctx->Iv is the last
\* ciphertext block written; after AES_CBC_decrypt_buffer over n >= 1 blocks it
\* is the last ciphertext block of the input as it was before the call, so
\* that encrypting a message and decrypting its ciphertext end with the same
\* Iv; a call with length 0 changes neither Iv nor the buffer.
C8_CbcChainingValue ==
    /\ \A k \in 1..Len(hist) :
        /\ (hist[k].op = "AES_CBC_encrypt_buffer" /\ hist[k].length >= AES_BLOCKLEN) =>
            hist[k].ivOut = LastBlock(hist[k].bufOut, hist[k].length)
        /\ (hist[k].op = "AES_CBC_decrypt_buffer" /\ hist[k].length >= AES_BLOCKLEN) =>
            hist[k].ivOut = LastBlock(hist[k].bufIn, hist[k].length)
        /\ (hist[k].op \in {"AES_CBC_encrypt_buffer", "AES_CBC_decrypt_buffer"}
                /\ hist[k].length = 0) =>
            (hist[k].ivOut = hist[k].ivIn /\ hist[k].bufOut = hist[k].bufIn)
    /\ \A i, j \in 1..Len(hist) :
        (Undoes(i, j) /\ hist[i].op = "AES_CBC_encrypt_buffer") => hist[j].ivOut = hist[i].ivOut
    /\ hist # <<>> => ctx.Iv = hist[Len(hist)].ivOut

\* two blocks were encrypted and the ciphertext decrypted in place, each call
\* changing both the buffer and the chaining value
C8_Witness ==
    \E i, j \in 1..Len(hist) :
        /\ Undoes(i, j)
        /\ hist[i].op = "AES_CBC_encrypt_buffer"
        /\ hist[i].length = 2 * AES_BLOCKLEN
        /\ hist[i].ivOut # hist[i].ivIn
        /\ hist[j].ivOut = LastBlock(hist[j].bufIn, hist[j].length)
        /\ hist[j].bufOut # hist[j].bufIn

(***************************************************************************)
(* Streaming: the same message processed by one call on ctx and buf, and   *)
(* block by block by successive calls on ctxB and bufB.  pc holds the      *)
(* operation, whether the one call was made, and the number of single      *)
(* block calls made.                                                       *)
(***************************************************************************)
MaxBlocks == 3

StreamOps == {"AES_CBC_encrypt_buffer", "AES_CBC_decrypt_buffer", "AES_CTR_xcrypt_buffer"}

StreamText == Plain1 \o Plain2 \o Plain3 \o Plain4

StreamCall(op, c, mem, length) ==
    CASE op = "AES_CBC_encrypt_buffer" -> AES_CBC_encrypt_buffer(c, mem, length)
      [] op = "AES_CBC_decrypt_buffer" -> AES_CBC_decrypt_buffer(c, mem, length)
      [] OTHER -> AES_CTR_xcrypt_buffer(c, mem, length)

IdleStream == UNCHANGED <<build, mode, adj, hist, fault, st>>

StreamInitCtxIv ==
    /\ ~inited
    /\ \E key \in Keys, iv \in IVs :
        /\ ctx' = AES_init_ctx_iv(ctx, key, iv)
        /\ ctxB' = ctx'
    /\ inited' = TRUE
    /\ UNCHANGED <<buf, bufB, pc>>
    /\ IdleStream

StreamWhole ==
    /\ inited /\ ~pc.whole
    /\ \E r \in {StreamCall(pc.op, ctx, buf, Len(buf))} :
        /\ ctx' = r.ctx
        /\ buf' = r.mem
    /\ pc' = [pc EXCEPT !.whole = TRUE]
    /\ UNCHANGED <<inited, ctxB, bufB>>
    /\ IdleStream

StreamBlock ==
    /\ inited /\ pc.done * AES_BLOCKLEN < Len(bufB)
    /\ \E ofs \in {pc.done * AES_BLOCKLEN} :
        \E r \in {StreamCall(pc.op, ctxB, SubSeq(bufB, ofs + 1, Len(bufB)), AES_BLOCKLEN)} :
            /\ ctxB' = r.ctx
            /\ bufB' = SubSeq(bufB, 1, ofs) \o r.mem
    /\ pc' = [pc EXCEPT !.done = pc.done + 1]
    /\ UNCHANGED <<inited, ctx, buf>>
    /\ IdleStream

InitStream ==
    /\ build \in Builds
    /\ mode = "stream"
    /\ ctx = Uninit
    /\ ctxB = Uninit
    /\ inited = FALSE
    /\ buf \in {SubSeq(StreamText, 1, n * AES_BLOCKLEN) : n \in 1..MaxBlocks}
    /\ bufB = buf
    /\ pc \in {[op |-> op, whole |-> FALSE, done |-> 0] : op \in StreamOps}
    /\ adj = <<>>
    /\ hist = <<>>
    /\ fault = FALSE
    /\ st = <<>>

NextStream ==
    \/ StreamInitCtxIv
    \/ StreamWhole
    \/ StreamBlock

SpecStream == InitStream /\ [][NextStream]_vars

\* C3: for CBC encryption, CBC decryption and CTR, one call over all n blocks
\* of a message gives the same output bytes and leaves the same chaining value
\* in the context as n calls over its successive blocks on one context, from
\* the same key and IV; the blocks done so far agree with the one call's.
C3_Streaming ==
    (inited /\ pc.whole) =>
        /\ SubSeq(bufB, 1, pc.done * AES_BLOCKLEN) = SubSeq(buf, 1, pc.done * AES_BLOCKLEN)
        /\ pc.done * AES_BLOCKLEN = Len(bufB) => (bufB = buf /\ ctxB.Iv = ctx.Iv)

\* a message of several blocks went through both ways and was changed by them
C3_Witness ==
    /\ inited /\ pc.whole
    /\ pc.done > 1
    /\ pc.done * AES_BLOCKLEN = Len(bufB)
    /\ bufB = buf
    /\ buf # SubSeq(StreamText, 1, Len(buf))

(***************************************************************************)
(* Initialisation from the key storage of a caller.  buf is the storage    *)
(* the key pointer points to, whatever its size, adj the memory that       *)
(* follows it, st a block of data and bufB the buffer the caller encrypts  *)
(* it in once the context is initialised.  The functions take a pointer    *)
(* and no length; reading past the end of the storage is undefined: the    *)
(* read faults, or it sees what follows the storage.                       *)
(***************************************************************************)
KeyText == Key128 \o Key192

KeyStorages == {SubSeq(KeyText, 1, n) : n \in {8, 16, 24, 32, 40}}

Adjacent == {Key256, IvMax \o IvCarry}

IdleInit == UNCHANGED <<build, mode, buf, adj, hist, ctxB, st>>

\* what memcpy(RoundKey, Key, 4 * Nk) reads
KeyRead == SubSeq(buf \o adj, 1, AES_KEYLEN)

InitKey ==
    /\ ~inited /\ ~fault /\ mode = "ECB"
    /\ \/ /\ ctx' = AES_init_ctx(ctx, buf \o adj)
          /\ inited' = TRUE
          /\ UNCHANGED fault
       \/ /\ Len(buf) < AES_KEYLEN
          /\ fault' = TRUE
          /\ UNCHANGED <<ctx, inited>>
    /\ UNCHANGED <<bufB, pc>>
    /\ IdleInit

InitKeyIv ==
    /\ ~inited /\ ~fault /\ mode = "CBC"
    /\ \E iv \in IVs :
        \/ /\ ctx' = AES_init_ctx_iv(ctx, buf \o adj, iv)
           /\ inited' = TRUE
           /\ UNCHANGED fault
        \/ /\ Len(buf) < AES_KEYLEN
           /\ fault' = TRUE
           /\ UNCHANGED <<ctx, inited>>
    /\ UNCHANGED <<bufB, pc>>
    /\ IdleInit

InitUseEcb ==
    /\ inited /\ mode = "ECB" /\ pc = "fresh"
    /\ bufB' = AES_ECB_encrypt(ctx, bufB)
    /\ pc' = "used"
    /\ UNCHANGED <<ctx, inited, fault>>
    /\ IdleInit

InitUseCbc ==
    /\ inited /\ mode = "CBC" /\ pc = "fresh"
    /\ \E r \in {AES_CBC_encrypt_buffer(ctx, bufB, Len(bufB))} :
        /\ ctx' = r.ctx
        /\ bufB' = r.mem
    /\ pc' = "used"
    /\ UNCHANGED <<inited, fault>>
    /\ IdleInit

InitInit ==
    /\ build \in Builds
    /\ mode \in {"ECB", "CBC"}
    /\ ctx = Uninit
    /\ inited = FALSE
    /\ buf \in KeyStorages
    /\ adj \in Adjacent
    /\ st \in {Plain1, Plain2}
    /\ bufB = st
    /\ pc = "fresh"
    /\ hist = <<>>
    /\ fault = FALSE
    /\ ctxB = <<>>

NextInit ==
    \/ InitKey
    \/ InitKeyIv
    \/ InitUseEcb
    \/ InitUseCbc

SpecInit == InitInit /\ [][NextInit]_vars

\* C5 as claimed: a key whose length is not 16, 24 or 32 bytes is rejected by
\* the initialisation, which derives no round key and leaves no usable context.
C5_InitRejects ==
    Len(buf) \notin {16, 24, 32} => (~inited /\ ctx = Uninit /\ pc = "fresh")

\* C5 as the code has it: AES_init_ctx and AES_init_ctx_iv take no length and
\* check none.  They copy the 4 * Nk bytes at the key pointer (16, 24 or 32 by
\* build) and expand them, whatever the size of the caller's key: a longer key
\* is cut to its first 4 * Nk bytes, a shorter one is read past its end (the
\* read faults or takes the bytes that follow), and the context encrypts.
C5_InitUnchecked ==
    /\ fault => (Len(buf) < AES_KEYLEN /\ ~inited /\ ctx = Uninit)
    /\ inited =>
        /\ SubSeq(ctx.RoundKey, 1, Nk) = AsStateWords(KeyRead)
        /\ ctx.RoundKey = KeyExpansion(Uninit.RoundKey, KeyRead)
        /\ Len(buf) >= AES_KEYLEN => KeyRead = SubSeq(buf, 1, AES_KEYLEN)
    /\ (pc = "used" /\ mode = "ECB") =>
        bufB = AsBytes(Cipher(AsState(st), KeyExpansion(Uninit.RoundKey, KeyRead)))
    /\ (pc = "used" /\ mode = "ECB" /\ KeyRead = Key128 /\ st = Plain1) => bufB = NistCipher[1]

\* a key of 40 bytes was accepted and the context encrypted a block
C5_Witness ==
    /\ Len(buf) = 40
    /\ inited
    /\ pc = "used"
    /\ bufB # st

(***************************************************************************)
(* CBC calls with any length.  buf is the storage the caller owns at the   *)
(* buffer pointer and adj the memory that follows it; the caller passes a  *)
(* length of at most the size of its storage.  st is the set of offsets    *)
(* from the pointer the call reads or writes.  An access beyond the        *)
(* storage is undefined: it faults, or it lands in the memory that         *)
(* follows.                                                                *)
(***************************************************************************)
CbcSizes == {5, 16, 21, 32}

\* the offsets the block loop reaches from position i on: every pass hands
\* buf .. buf + AES_BLOCKLEN - 1 to XorWithIv and to the block cipher
RECURSIVE CBCLoopTouches(_, _)
CBCLoopTouches(i, length) ==
    IF i < length
    THEN (i..(i + AES_BLOCKLEN - 1)) \union CBCLoopTouches(i + AES_BLOCKLEN, length)
    ELSE {}

IdleCbc == UNCHANGED <<build, mode, ctxB, bufB>>

AnyInitCtxIv ==
    /\ ~inited
    /\ \E key \in Keys, iv \in IVs : ctx' = AES_init_ctx_iv(ctx, key, iv)
    /\ inited' = TRUE
    /\ UNCHANGED <<buf, adj, hist, fault, pc, st>>
    /\ IdleCbc

AnyCall(op, length) ==
    /\ st' = CBCLoopTouches(0, length)
    /\ pc' = "called"
    /\ \/ /\ \E r \in {StreamCall(op, ctx, buf \o adj, length)} :
                /\ ctx' = r.ctx
                /\ buf' = SubSeq(r.mem, 1, Len(buf))
                /\ adj' = SubSeq(r.mem, Len(buf) + 1, Len(r.mem))
          /\ hist' = <<Call(op, length, 0, <<>>, ctx, buf \o adj, ctx', buf' \o adj')>>
          /\ UNCHANGED fault
       \/ /\ \E i \in st' : i >= Len(buf)
          /\ fault' = TRUE
          /\ hist' = <<Call(op, length, 0, <<>>, ctx, buf \o adj, ctx, buf \o adj)>>
          /\ UNCHANGED <<ctx, buf, adj>>
    /\ UNCHANGED inited
    /\ IdleCbc

AnyCbcEncrypt ==
    /\ inited /\ pc = "fresh"
    /\ \E length \in {n \in CbcSizes : n <= Len(buf)} : AnyCall("AES_CBC_encrypt_buffer", length)

AnyCbcDecrypt ==
    /\ inited /\ pc = "fresh"
    /\ \E length \in {n \in CbcSizes : n <= Len(buf)} : AnyCall("AES_CBC_decrypt_buffer", length)

InitCbc ==
    /\ build \in Builds
    /\ mode = "CBC"
    /\ ctx = Uninit
    /\ inited = FALSE
    /\ buf \in {SubSeq(StreamText, 1, n) : n \in CbcSizes}
    /\ adj = Key256
    /\ hist = <<>>
    /\ fault = FALSE
    /\ pc = "fresh"
    /\ st = {}
    /\ ctxB = <<>>
    /\ bufB = <<>>

NextCbc ==
    \/ AnyInitCtxIv
    \/ AnyCbcEncrypt
    \/ AnyCbcDecrypt

SpecCbc == InitCbc /\ [][NextCbc]_vars

Misaligned == pc = "called" /\ hist[1].length % AES_BLOCKLEN # 0

WholeBlocks(length) == length - (length % AES_BLOCKLEN)

RoundedUp(length) == WholeBlocks(length + AES_BLOCKLEN - 1)

\* C9 as claimed: with a length that is not a multiple of 16 the block loop
\* stops short: it processes floor(length / 16) blocks, leaves the trailing
\* length mod 16 bytes as they were, signals no error and touches no byte at an
\* index >= length.
C9_StopsShort ==
    Misaligned =>
        /\ ~fault
        /\ \A i \in st : i < hist[1].length
        /\ Cardinality(st) = WholeBlocks(hist[1].length)
        /\ SubSeq(hist[1].bufOut, WholeBlocks(hist[1].length) + 1, Len(hist[1].bufOut))
               = SubSeq(hist[1].bufIn, WholeBlocks(hist[1].length) + 1, Len(hist[1].bufIn))

\* C9 as the code has it: the loop runs while i < length, so a length that is
\* not a multiple of 16 is processed as the next multiple of 16: the last pass
\* takes the trailing bytes together with the bytes that follow them, reads
\* and writes every offset below the rounded-up length, and the call returns
\* what a call with the rounded-up length returns.  No error is signalled;
\* only where the rounded-up length exceeds the caller's storage can the call
\* fault.
C9_RunsPastLength ==
    pc = "called" =>
        LET e == hist[1]
            up == RoundedUp(e.length)
            r == StreamCall(e.op, [ctx EXCEPT !.Iv = e.ivIn], e.bufIn, up)
        IN  /\ st = 0..(up - 1)
            /\ fault => up > Len(buf)
            /\ ~fault => (e.bufOut = r.mem /\ ctx.Iv = r.ctx.Iv /\ buf \o adj = e.bufOut)

\* a call with length 21 on 32 bytes of storage returned with bytes 21..31 changed
C9_Witness ==
    /\ Misaligned
    /\ ~fault
    /\ hist[1].length = 21
    /\ Len(buf) = 32
    /\ \A i \in 22..32 : buf[i] # hist[1].bufIn[i]

(***************************************************************************)
(* The block cipher statement by statement.  st is the state_t the         *)
(* function works on, pc the function, the statement it is at and its      *)
(* local round, hist the calls it has made so far: the callee and, for     *)
(* AddRoundKey, the round argument.                                        *)
(***************************************************************************)
NoRound == -1

\* Cipher with the test of round placed after MixColumns
CipherNext_BreakAfterMix(at, round) ==
    CASE at = "first" -> <<"SubBytes", 1>>
      [] at = "SubBytes" -> <<"ShiftRows", round>>
      [] at = "ShiftRows" -> <<"MixColumns", round>>
      [] at = "MixColumns" -> IF round = Nr THEN <<"last", round>> ELSE <<"AddRoundKey", round>>
      [] at = "AddRoundKey" -> <<"SubBytes", (round + 1) % 256>>
      [] at = "last" -> <<"return", round>>

\* Cipher: the statement after the one at (at, round), with the value of round
CipherNext(at, round) ==
    CASE at = "first" -> <<"SubBytes", 1>>
      [] at = "SubBytes" -> <<"ShiftRows", round>>
      [] at = "ShiftRows" -> IF round = Nr THEN <<"last", round>> ELSE <<"MixColumns", round>>
      [] at = "MixColumns" -> <<"AddRoundKey", round>>
      [] at = "AddRoundKey" -> <<"SubBytes", (round + 1) % 256>>
      [] at = "last" -> <<"return", round>>

\* Cipher: the call the statement makes
CipherCalls(at, round) ==
    CASE at = "first" -> <<"AddRoundKey", 0>>
      [] at = "AddRoundKey" -> <<"AddRoundKey", round>>
      [] at = "last" -> <<"AddRoundKey", Nr>>
      [] OTHER -> <<at, NoRound>>

\* InvCipher: the statement after the one at (at, round), with the value of round
InvCipherNext(at, round) ==
    CASE at = "first" -> <<"InvShiftRows", Nr - 1>>
      [] at = "InvShiftRows" -> <<"InvSubBytes", round>>
      [] at = "InvSubBytes" -> <<"AddRoundKey", round>>
      [] at = "AddRoundKey" -> IF round = 0 THEN <<"return", round>> ELSE <<"InvMixColumns", round>>
      [] at = "InvMixColumns" -> <<"InvShiftRows", (round + 255) % 256>>

\* InvCipher: the call the statement makes
InvCipherCalls(at, round) ==
    CASE at = "first" -> <<"AddRoundKey", Nr>>
      [] at = "AddRoundKey" -> <<"AddRoundKey", round>>
      [] OTHER -> <<at, NoRound>>

\* what a call does to the state
Perform(call, state, RoundKey) ==
    CASE call[1] = "AddRoundKey" -> AddRoundKey(call[2], state, RoundKey)
      [] call[1] = "SubBytes" -> SubBytes(state)
      [] call[1] = "ShiftRows" -> ShiftRows(state)
      [] call[1] = "MixColumns" -> MixColumns(state)
      [] call[1] = "InvShiftRows" -> InvShiftRows(state)
      [] call[1] = "InvSubBytes" -> InvSubBytes(state)
      [] call[1] = "InvMixColumns" -> InvMixColumns(state)

IdleRounds == UNCHANGED <<build, mode, ctx, inited, buf, adj, fault, ctxB, bufB>>

CipherStep ==
    /\ inited /\ pc.fn = "Cipher" /\ pc.at # "return"
    /\ \E call \in {CipherCalls(pc.at, pc.round)}, next \in {CipherNext(pc.at, pc.round)} :
        /\ st' = Perform(call, st, ctx.RoundKey)
        /\ hist' = Append(hist, call)
        /\ pc' = [pc EXCEPT !.at = next[1], !.round = next[2]]
    /\ IdleRounds

InvCipherStep ==
    /\ inited /\ pc.fn = "InvCipher" /\ pc.at # "return"
    /\ \E call \in {InvCipherCalls(pc.at, pc.round)}, next \in {InvCipherNext(pc.at, pc.round)} :
        /\ st' = Perform(call, st, ctx.RoundKey)
        /\ hist' = Append(hist, call)
        /\ pc' = [pc EXCEPT !.at = next[1], !.round = next[2]]
    /\ IdleRounds

\* the schedules AES_init_ctx derives from the keys of SP 800-38A
Schedule128 == <<
    <<43, 126, 21, 22>>, <<40, 174, 210, 166>>, <<171, 247, 21, 136>>, <<9, 207, 79, 60>>,
    <<160, 250, 254, 23>>, <<136, 84, 44, 177>>, <<35, 163, 57, 57>>, <<42, 108, 118, 5>>,
    <<242, 194, 149, 242>>, <<122, 150, 185, 67>>, <<89, 53, 128, 122>>, <<115, 89, 246, 127>>,
    <<61, 128, 71, 125>>, <<71, 22, 254, 62>>, <<30, 35, 126, 68>>, <<109, 122, 136, 59>>,
    <<239, 68, 165, 65>>, <<168, 82, 91, 127>>, <<182, 113, 37, 59>>, <<219, 11, 173, 0>>,
    <<212, 209, 198, 248>>, <<124, 131, 157, 135>>, <<202, 242, 184, 188>>, <<17, 249, 21, 188>>,
    <<109, 136, 163, 122>>, <<17, 11, 62, 253>>, <<219, 249, 134, 65>>, <<202, 0, 147, 253>>,
    <<78, 84, 247, 14>>, <<95, 95, 201, 243>>, <<132, 166, 79, 178>>, <<78, 166, 220, 79>>,
    <<234, 210, 115, 33>>, <<181, 141, 186, 210>>, <<49, 43, 245, 96>>, <<127, 141, 41, 47>>,
    <<172, 119, 102, 243>>, <<25, 250, 220, 33>>, <<40, 209, 41, 65>>, <<87, 92, 0, 110>>,
    <<208, 20, 249, 168>>, <<201, 238, 37, 137>>, <<225, 63, 12, 200>>, <<182, 99, 12, 166>> >>

Schedule192 == <<
    <<142, 115, 176, 247>>, <<218, 14, 100, 82>>, <<200, 16, 243, 43>>, <<128, 144, 121, 229>>,
    <<98, 248, 234, 210>>, <<82, 44, 107, 123>>, <<254, 12, 145, 247>>, <<36, 2, 245, 165>>,
    <<236, 18, 6, 142>>, <<108, 130, 127, 107>>, <<14, 122, 149, 185>>, <<92, 86, 254, 194>>,
    <<77, 183, 180, 189>>, <<105, 181, 65, 24>>, <<133, 167, 71, 150>>, <<233, 37, 56, 253>>,
    <<231, 95, 173, 68>>, <<187, 9, 83, 134>>, <<72, 90, 240, 87>>, <<33, 239, 177, 79>>,
    <<164, 72, 246, 217>>, <<77, 109, 206, 36>>, <<170, 50, 99, 96>>, <<17, 59, 48, 230>>,
    <<162, 94, 126, 213>>, <<131, 177, 207, 154>>, <<39, 249, 57, 67>>, <<106, 148, 247, 103>>,
    <<192, 166, 148, 7>>, <<209, 157, 164, 225>>, <<236, 23, 134, 235>>, <<111, 166, 73, 113>>,
    <<72, 95, 112, 50>>, <<34, 203, 135, 85>>, <<226, 109, 19, 82>>, <<51, 240, 183, 179>>,
    <<64, 190, 235, 40>>, <<47, 24, 162, 89>>, <<103, 71, 210, 107>>, <<69, 140, 85, 62>>,
    <<167, 225, 70, 108>>, <<148, 17, 241, 223>>, <<130, 31, 117, 10>>, <<173, 7, 215, 83>>,
    <<202, 64, 5, 56>>, <<143, 204, 80, 6>>, <<40, 45, 22, 106>>, <<188, 60, 231, 181>>,
    <<233, 139, 160, 111>>, <<68, 140, 119, 60>>, <<142, 204, 114, 4>>, <<1, 0, 34, 2>> >>

Schedule256 == <<
    <<96, 61, 235, 16>>, <<21, 202, 113, 190>>, <<43, 115, 174, 240>>, <<133, 125, 119, 129>>,
    <<31, 53, 44, 7>>, <<59, 97, 8, 215>>, <<45, 152, 16, 163>>, <<9, 20, 223, 244>>,
    <<155, 163, 84, 17>>, <<142, 105, 37, 175>>, <<165, 26, 139, 95>>, <<32, 103, 252, 222>>,
    <<168, 176, 156, 26>>, <<147, 209, 148, 205>>, <<190, 73, 132, 110>>, <<183, 93, 91, 154>>,
    <<213, 154, 236, 184>>, <<91, 243, 201, 23>>, <<254, 233, 66, 72>>, <<222, 142, 190, 150>>,
    <<181, 169, 50, 138>>, <<38, 120, 166, 71>>, <<152, 49, 34, 41>>, <<47, 108, 121, 179>>,
    <<129, 44, 129, 173>>, <<218, 223, 72, 186>>, <<36, 54, 10, 242>>, <<250, 184, 180, 100>>,
    <<152, 197, 191, 201>>, <<190, 189, 25, 142>>, <<38, 140, 59, 167>>, <<9, 224, 66, 20>>,
    <<104, 0, 123, 172>>, <<178, 223, 51, 22>>, <<150, 233, 57, 228>>, <<108, 81, 141, 128>>,
    <<200, 20, 226, 4>>, <<118, 169, 251, 138>>, <<80, 37, 192, 45>>, <<89, 197, 130, 57>>,
    <<222, 19, 105, 103>>, <<108, 204, 90, 113>>, <<250, 37, 99, 149>>, <<150, 116, 238, 21>>,
    <<88, 134, 202, 93>>, <<46, 47, 49, 215>>, <<126, 10, 241, 250>>, <<39, 207, 115, 195>>,
    <<116, 156, 71, 171>>, <<24, 80, 29, 218>>, <<226, 117, 126, 79>>, <<116, 1, 144, 90>>,
    <<202, 250, 170, 227>>, <<228, 213, 155, 52>>, <<154, 223, 106, 206>>, <<189, 16, 25, 13>>,
    <<254, 72, 144, 209>>, <<230, 24, 141, 11>>, <<4, 109, 243, 68>>, <<112, 108, 99, 30>> >>

Schedule ==
    CASE build = "AES256" -> Schedule256 [] build = "AES192" -> Schedule192 [] OTHER -> Schedule128

ScheduleKey ==
    CASE build = "AES256" -> Key256 [] build = "AES192" -> Key192 [] OTHER -> Key128

\* the caller has initialised its context and hands a block to Cipher or InvCipher
InitRounds ==
    /\ build \in Builds
    /\ mode = "ECB"
    /\ ctx = [RoundKey |-> Schedule, Iv |-> Uninit.Iv]
    /\ inited = TRUE
    /\ buf \in {Plain1, Plain2, IvMax}
    /\ st = AsState(buf)
    /\ pc \in {[fn |-> fn, at |-> "first", round |-> 0] : fn \in {"Cipher", "InvCipher"}}
    /\ hist = <<>>
    /\ adj = <<>>
    /\ fault = FALSE
    /\ ctxB = <<>>
    /\ bufB = <<>>

NextRounds ==
    \/ CipherStep
    \/ InvCipherStep

\* control moves to the next statement
RoundsAdvance ==
    /\ pc.at # "return"
    /\ \E next \in {IF pc.fn = "Cipher" THEN CipherNext(pc.at, pc.round)
                                       ELSE InvCipherNext(pc.at, pc.round)} :
        pc' = [pc EXCEPT !.at = next[1], !.round = next[2]]

\* a call runs statement after statement; nothing suspends it
SpecRounds == InitRounds /\ [][NextRounds]_vars /\ WF_pc(RoundsAdvance)

\* the calls of the rounds from round r up / from round r down, as the claim lists them
RECURSIVE ForwardRounds(_)
ForwardRounds(r) ==
    IF r = Nr
    THEN <<<<"SubBytes", NoRound>>, <<"ShiftRows", NoRound>>, <<"AddRoundKey", Nr>>>>
    ELSE <<<<"SubBytes", NoRound>>, <<"ShiftRows", NoRound>>, <<"MixColumns", NoRound>>,
           <<"AddRoundKey", r>>>> \o ForwardRounds(r + 1)

RECURSIVE InverseRounds(_)
InverseRounds(r) ==
    <<<<"InvShiftRows", NoRound>>, <<"InvSubBytes", NoRound>>, <<"AddRoundKey", r>>>>
        \o (IF r = 0 THEN <<>> ELSE <<<<"InvMixColumns", NoRound>>>> \o InverseRounds(r - 1))

Sequenced ==
    IF pc.fn = "Cipher"
    THEN <<<<"AddRoundKey", 0>>>> \o ForwardRounds(1)
    ELSE <<<<"AddRoundKey", Nr>>>> \o InverseRounds(Nr - 1)

\* the round arguments of the AddRoundKey calls among the calls, in order
RECURSIVE KeyIndices(_)
KeyIndices(calls) ==
    IF calls = <<>> THEN <<>>
    ELSE (IF Head(calls)[1] = "AddRoundKey" THEN <<Head(calls)[2]>> ELSE <<>>)
             \o KeyIndices(Tail(calls))

RoundsReturned == pc.at = "return"

RoundsInOrder ==
    /\ Len(hist) <= Len(Sequenced)
    /\ hist = SubSeq(Sequenced, 1, Len(hist))
    /\ RoundsReturned <=> hist = Sequenced
    /\ RoundsReturned =>
        KeyIndices(hist) = [k \in 1..(Nr + 1) |-> IF pc.fn = "Cipher" THEN k - 1 ELSE Nr + 1 - k]

\* C10: Cipher calls AddRoundKey(0), then for round 1..Nr-1 SubBytes, ShiftRows,
\* MixColumns, AddRoundKey(round), then SubBytes, ShiftRows, AddRoundKey(Nr), and
\* returns; InvCipher calls AddRoundKey(Nr), then for round Nr-1 down to 0
\* InvShiftRows, InvSubBytes, AddRoundKey(round) and, while round > 0,
\* InvMixColumns, and returns.  Each round key 0..Nr is used once, ascending in
\* Cipher and descending in InvCipher, whatever the data and the key.
C10_RoundSequence == [](RoundsInOrder) /\ <>(RoundsReturned)

\* InvCipher has returned on a block after Nr rounds
C10_Witness ==
    /\ pc.fn = "InvCipher"
    /\ RoundsReturned
    /\ Len(hist) = 4 * Nr
    /\ st # AsState(buf)

\* the statements compute what the functions compute
RoundsAgree ==
    /\ ctx = AES_init_ctx(Uninit, ScheduleKey)
    /\ RoundsReturned =>
        st = IF pc.fn = "Cipher" THEN Cipher(AsState(buf), ctx.RoundKey)
                                 ELSE InvCipher(AsState(buf), ctx.RoundKey)

(***************************************************************************)
(* Two callers on the library's contexts (spec section on thread safety).  *)
(* Each caller runs one AES_CTR_xcrypt_buffer or AES_CBC_decrypt_buffer    *)
(* call; the call is stepped at the granularity of its memcpy calls, its   *)
(* block cipher calls and the passes of the counter increment loop.        *)
(*   mode : "shared"     both callers use ctx, with no serialisation       *)
(*          "serialised" both use ctx, a call starts only when the other   *)
(*                       caller is not inside a call                       *)
(*          "distinct"   caller 1 uses ctx, caller 2 uses ctxB, a context  *)
(*                       of another stream (another Iv)                    *)
(*   buf, bufB : the callers' buffers;  st : the callers' locals           *)
(*   pc : the callers' positions;  hist : the arguments as first passed    *)
(***************************************************************************)
Callers == {1, 2}

Other(t) == 3 - t

Disciplines == {"shared", "serialised", "distinct"}

RaceOps == {"AES_CTR_xcrypt_buffer", "AES_CBC_decrypt_buffer"}

OwnsCtxB(t) == mode = "distinct" /\ t = 2

CtxOf(t) == IF OwnsCtxB(t) THEN ctxB ELSE ctx

BufOf(t) == IF t = 1 THEN buf ELSE bufB

Locals == [i |-> 0, bi |-> AES_BLOCKLEN, buffer |-> <<>>, storeNextIv |-> <<>>,
           counters |-> <<>>]

\* ctx->Iv[bi] == 255 ? (ctx->Iv[bi] = 0, continue) : (ctx->Iv[bi] += 1, break)
CtrIncrementByte_NoCarry(Iv, bi) ==
    [Iv |-> [Iv EXCEPT ![bi + 1] = (Iv[bi + 1] + 1) % 256], break |-> TRUE]

CtrIncrementByte(Iv, bi) ==
    IF Iv[bi + 1] = 255
    THEN [Iv |-> [Iv EXCEPT ![bi + 1] = 0], break |-> FALSE]
    ELSE [Iv |-> [Iv EXCEPT ![bi + 1] = Iv[bi + 1] + 1], break |-> TRUE]

\* Assignments to the caller's context, buffer, locals and position.
RaceStep(t, iv, block, locals, at) ==
    /\ IF OwnsCtxB(t)
       THEN ctxB' = [ctxB EXCEPT !.Iv = iv] /\ UNCHANGED ctx
       ELSE ctx' = [ctx EXCEPT !.Iv = iv] /\ UNCHANGED ctxB
    /\ IF t = 1
       THEN buf' = PutBlock(buf, st[t].i, block) /\ UNCHANGED bufB
       ELSE bufB' = PutBlock(bufB, st[t].i, block) /\ UNCHANGED buf
    /\ st' = [st EXCEPT ![t] = locals]
    /\ pc' = [pc EXCEPT ![t] = at]
    /\ UNCHANGED <<build, mode, inited, adj, hist, fault>>

Here(t) == BlockAt(BufOf(t), st[t].i)

\* The loop test of the driver: i < length.
LoopTest(i, length, body) == IF i < length THEN body ELSE "return"

RaceCall ==
    \E t \in Callers :
        /\ pc[t] = "call"
        /\ mode = "serialised" => pc[Other(t)] \in {"call", "return"}
        /\ RaceStep(t, CtxOf(t).Iv, Here(t), Locals,
                    LoopTest(0, Len(BufOf(t)),
                             IF hist.op = "AES_CTR_xcrypt_buffer" THEN "memcpy_buffer"
                                                                  ELSE "memcpy_storeNextIv"))

\* memcpy(buffer, ctx->Iv, AES_BLOCKLEN)
CtrCopy ==
    \E t \in Callers :
        /\ pc[t] = "memcpy_buffer"
        /\ RaceStep(t, CtxOf(t).Iv, Here(t),
                    [st[t] EXCEPT !.buffer = CtxOf(t).Iv], "Cipher")

\* Cipher((state_t*)buffer, ctx->RoundKey); bi = AES_BLOCKLEN - 1
CtrCipher ==
    \E t \in Callers :
        /\ pc[t] = "Cipher"
        /\ \E out \in {AsBytes(Cipher(AsState(st[t].buffer), CtxOf(t).RoundKey))} :
            RaceStep(t, CtxOf(t).Iv, Here(t),
                     [st[t] EXCEPT !.buffer = out, !.bi = AES_BLOCKLEN - 1,
                                   !.counters = Append(@, st[t].buffer)],
                     "increment")

\* One pass of the increment loop, its test bi >= 0 included.
CtrIncrement ==
    \E t \in Callers :
        /\ pc[t] = "increment"
        /\ IF st[t].bi >= 0
           THEN \E r \in {CtrIncrementByte(CtxOf(t).Iv, st[t].bi)} :
                   IF r.break
                   THEN RaceStep(t, r.Iv, Here(t), [st[t] EXCEPT !.bi = 0], "xor")
                   ELSE RaceStep(t, r.Iv, Here(t), [st[t] EXCEPT !.bi = @ - 1], "increment")
           ELSE RaceStep(t, CtxOf(t).Iv, Here(t), [st[t] EXCEPT !.bi = 0], "xor")

\* buf[i] = (buf[i] ^ buffer[bi]) for the bytes of the block; back to the loop test.
CtrXor ==
    \E t \in Callers :
        /\ pc[t] = "xor"
        /\ RaceStep(t, CtxOf(t).Iv,
                    [k \in 1..AES_BLOCKLEN |-> Xor8(Here(t)[k], st[t].buffer[k])],
                    [st[t] EXCEPT !.i = @ + AES_BLOCKLEN, !.bi = AES_BLOCKLEN],
                    LoopTest(st[t].i + AES_BLOCKLEN, Len(BufOf(t)), "memcpy_buffer"))

\* memcpy(storeNextIv, buf, AES_BLOCKLEN)
CbcSave ==
    \E t \in Callers :
        /\ pc[t] = "memcpy_storeNextIv"
        /\ RaceStep(t, CtxOf(t).Iv, Here(t),
                    [st[t] EXCEPT !.storeNextIv = Here(t)], "InvCipher")

\* InvCipher((state_t*)buf, ctx->RoundKey)
CbcInvCipher ==
    \E t \in Callers :
        /\ pc[t] = "InvCipher"
        /\ \E out \in {AsBytes(InvCipher(AsState(Here(t)), CtxOf(t).RoundKey))} :
            RaceStep(t, CtxOf(t).Iv, out, st[t], "XorWithIv")

\* XorWithIv(buf, ctx->Iv)
CbcXorWithIv ==
    \E t \in Callers :
        /\ pc[t] = "XorWithIv"
        /\ RaceStep(t, CtxOf(t).Iv, XorWithIv(Here(t), CtxOf(t).Iv), st[t], "memcpy_Iv")

\* memcpy(ctx->Iv, storeNextIv, AES_BLOCKLEN); buf += AES_BLOCKLEN; back to the loop test.
CbcStore ==
    \E t \in Callers :
        /\ pc[t] = "memcpy_Iv"
        /\ RaceStep(t, st[t].storeNextIv, Here(t),
                    [st[t] EXCEPT !.i = @ + AES_BLOCKLEN],
                    LoopTest(st[t].i + AES_BLOCKLEN, Len(BufOf(t)), "memcpy_storeNextIv"))

InitRace ==
    /\ build \in Builds
    /\ mode \in Disciplines
    /\ \E iv \in IVs : ctx = [RoundKey |-> Schedule, Iv |-> iv]
    /\ IF mode = "distinct"
       THEN \E iv \in IVs \ {ctx.Iv} : ctxB = [RoundKey |-> Schedule, Iv |-> iv]
       ELSE ctxB = Uninit
    /\ inited = TRUE
    /\ buf = Plain1
    /\ bufB = Plain2
    /\ adj = <<>>
    /\ fault = FALSE
    /\ st = [t \in Callers |-> Locals]
    /\ pc = [t \in Callers |-> "call"]
    /\ \E op \in RaceOps :
        hist = [op |-> op, ctx |-> ctx, ctxB |-> ctxB, buf |-> buf, bufB |-> bufB]

NextRace ==
    \/ RaceCall
    \/ CtrCopy
    \/ CtrCipher
    \/ CtrIncrement
    \/ CtrXor
    \/ CbcSave
    \/ CbcInvCipher
    \/ CbcXorWithIv
    \/ CbcStore

SpecRace == InitRace /\ [][NextRace]_vars

\* One whole call, as the driver computes it when nothing else runs.
Alone(c, mem) ==
    IF hist.op = "AES_CTR_xcrypt_buffer"
    THEN AES_CTR_xcrypt_buffer(c, mem, Len(mem))
    ELSE AES_CBC_decrypt_buffer(c, mem, Len(mem))

\* The contexts and buffers after the two calls run one after the other on ctx.
Serial(first) ==
    LET a == Alone(hist.ctx, IF first = 1 THEN hist.buf ELSE hist.bufB)
        b == Alone(a.ctx, IF first = 1 THEN hist.bufB ELSE hist.buf)
    IN  [Iv |-> b.ctx.Iv,
         buf  |-> IF first = 1 THEN a.mem ELSE b.mem,
         bufB |-> IF first = 1 THEN b.mem ELSE a.mem]

BothReturned == \A t \in Callers : pc[t] = "return"

\* The outcome on one context is that of neither serial order; on two
\* contexts, that of the two calls each run alone.
NeitherOrder ==
    /\ BothReturned
    /\ IF mode = "distinct"
       THEN \/ [ctx |-> ctx, mem |-> buf] # Alone(hist.ctx, hist.buf)
            \/ [ctx |-> ctxB, mem |-> bufB] # Alone(hist.ctxB, hist.bufB)
       ELSE [Iv |-> ctx.Iv, buf |-> buf, bufB |-> bufB] \notin {Serial(1), Serial(2)}

\* A counter value that both callers have encrypted.
CounterReused ==
    \E j \in DOMAIN st[1].counters : \E k \in DOMAIN st[2].counters :
        st[1].counters[j] = st[2].counters[k]

\* C7: two callers of AES_CTR_xcrypt_buffer or AES_CBC_decrypt_buffer whose
\* calls are serialised, or run on two distinct contexts, never encrypt the
\* same counter value twice, and end with the Iv and buffers of one of the
\* serial orders (on two contexts: of each call run alone).  A reused
\* counter or an outcome of neither order is reachable only on one context
\* shared without serialisation, and there it is reached (C7_Witness).
C7_RaceOnlyUnserialised == (CounterReused \/ NeitherOrder) => mode = "shared"

C7_Witness ==
    /\ mode = "shared"
    /\ hist.op = "AES_CTR_xcrypt_buffer"
    /\ CounterReused
    /\ NeitherOrder

C7_WitnessCbc ==
    /\ mode = "shared"
    /\ hist.op = "AES_CBC_decrypt_buffer"
    /\ NeitherOrder

(***************************************************************************)
(* KeyExpansion, statement by statement.                                   *)
(*   buf  : the Key argument;  ctx.RoundKey : the schedule being written   *)
(*   pc   : position, with the loop variable i                             *)
(*   st   : the indices of the words of RoundKey written so far            *)
(*   hist : per pass of the loop, the indices read and written and the     *)
(*          argument of getRconValue (NoRcon if it is not called)          *)
(***************************************************************************)
NoRcon == 0 - 1

ExpansionKeys ==
    CASE build = "AES256" -> {Key256, KeyText \o SubSeq(Key192, 1, 8)}
      [] build = "AES192" -> {Key192, SubSeq(KeyText, 1, 24)}
      [] OTHER -> {Key128, KeySeq128}

IdleExpansion == UNCHANGED <<build, mode, buf, adj, fault, ctxB, bufB>>

\* memcpy(RoundKey, Key, 4 * Nk); i = Nk
ExpansionMemcpy ==
    /\ pc.at = "memcpy"
    /\ ctx' = [ctx EXCEPT !.RoundKey =
                  [k \in 1..Len(@) |-> IF k <= Nk THEN WordAt(buf, k - 1) ELSE @[k]]]
    /\ st' = 0..(Nk - 1)
    /\ pc' = [at |-> "for", i |-> Nk]
    /\ UNCHANGED <<hist, inited>>
    /\ IdleExpansion

\* One pass of the loop: temp from RoundKey->i[i - 1], then
\* RoundKey->i[i] = RoundKey->i[i - Nk] ^ temp.i; ++i
ExpansionPass ==
    /\ pc.at = "for"
    /\ pc.i < Nb * (Nr + 1)
    /\ \E temp \in {KeyExpansionTemp(ctx.RoundKey, pc.i)} :
        ctx' = [ctx EXCEPT !.RoundKey[pc.i + 1] = XorW(ctx.RoundKey[(pc.i - Nk) + 1], temp)]
    /\ hist' = Append(hist, [i |-> pc.i, read |-> {pc.i - 1, pc.i - Nk}, written |-> st,
                             Rcon |-> IF pc.i % Nk = 0 THEN pc.i \div Nk ELSE NoRcon])
    /\ st' = st \cup {pc.i}
    /\ pc' = [pc EXCEPT !.i = @ + 1]
    /\ UNCHANGED inited
    /\ IdleExpansion

\* the loop test fails: KeyExpansion returns
ExpansionReturn ==
    /\ pc.at = "for"
    /\ ~(pc.i < Nb * (Nr + 1))
    /\ pc' = [pc EXCEPT !.at = "return"]
    /\ inited' = TRUE
    /\ UNCHANGED <<ctx, st, hist>>
    /\ IdleExpansion

InitExpansion ==
    /\ build \in Builds
    /\ mode = "KeyExpansion"
    /\ buf \in ExpansionKeys
    /\ ctx = Uninit
    /\ inited = FALSE
    /\ adj = <<>>
    /\ fault = FALSE
    /\ ctxB = <<>>
    /\ bufB = <<>>
    /\ hist = <<>>
    /\ st = {}
    /\ pc = [at |-> "memcpy", i |-> 0]

NextExpansion ==
    \/ ExpansionMemcpy
    \/ ExpansionPass
    \/ ExpansionReturn

SpecExpansion == InitExpansion /\ [][NextExpansion]_vars

\* The schedule of FIPS-197 in the claim's words, on words as byte tuples
\* with the byte of lowest address first.
RotWordFips(w) == <<w[2], w[3], w[4], w[1]>>

SubWordFips(w) == <<sbox[w[1] + 1], sbox[w[2] + 1], sbox[w[3] + 1], sbox[w[4] + 1]>>

RconFips == <<1, 2, 4, 8, 16, 32, 64, 128, 27, 54>>

TFips(w, i, nk) ==
    IF i % nk = 0
    THEN LET s == SubWordFips(RotWordFips(w[i]))
         IN  <<Xor8(s[1], RconFips[i \div nk]), s[2], s[3], s[4]>>
    ELSE IF nk = 8 /\ i % nk = 4 THEN SubWordFips(w[i]) ELSE w[i]

WordXor(a, b) == <<Xor8(a[1], b[1]), Xor8(a[2], b[2]), Xor8(a[3], b[3]), Xor8(a[4], b[4])>>

Sizes == CASE build = "AES256" -> [Nk |-> 8, Nr |-> 14, Rcons |-> 1..7]
           [] build = "AES192" -> [Nk |-> 6, Nr |-> 12, Rcons |-> 1..8]
           [] OTHER -> [Nk |-> 4, Nr |-> 10, Rcons |-> 1..10]

ExpansionReturned == pc.at = "return"

RconsUsed == {hist[p].Rcon : p \in DOMAIN hist} \ {NoRcon}

\* C11: KeyExpansion writes exactly the words 0 .. 4*(Nr+1)-1; the first Nk
\* are the key bytes; every later word i is w[i-Nk] XOR t, with t the
\* rotated, substituted word i-1 with Rcon[i/Nk] on its first byte when
\* i mod Nk = 0, the substituted word i-1 when Nk = 8 and i mod Nk = 4, and
\* word i-1 otherwise; each pass reads only words written before it; the
\* Rcon indices are 1..10, 1..8 or 1..7 by key size.
C11_KeySchedule ==
    LET w == ctx.RoundKey
        last == 4 * (Sizes.Nr + 1) - 1
    IN  /\ Nk = Sizes.Nk /\ Nr = Sizes.Nr
        /\ st \subseteq 0..last
        /\ ExpansionReturned => st = 0..last /\ Len(w) = last + 1
        /\ \A k \in st : k < Sizes.Nk =>
              w[k + 1] = <<buf[4 * k + 1], buf[4 * k + 2], buf[4 * k + 3], buf[4 * k + 4]>>
        /\ \A i \in st : i >= Sizes.Nk =>
              w[i + 1] = WordXor(w[(i - Sizes.Nk) + 1], TFips(w, i, Sizes.Nk))
        /\ \A p \in DOMAIN hist :
              /\ hist[p].i = Sizes.Nk + p - 1
              /\ hist[p].read \subseteq hist[p].written
              /\ hist[p].Rcon # NoRcon => hist[p].Rcon \in Sizes.Rcons
        /\ ExpansionReturned => RconsUsed = Sizes.Rcons

C11_Witness ==
    /\ ExpansionReturned
    /\ build = "AES256"
    /\ Len(hist) = 52
    /\ \E p \in DOMAIN hist : hist[p].i % 8 = 4

\* the stepped schedule is the one AES_init_ctx leaves in the context
ExpansionAgrees == ExpansionReturned => ctx = AES_init_ctx(Uninit, buf)

(***************************************************************************)
(* AES_CTR_xcrypt_buffer over a text in one call and in two calls.         *)
(*   buf, ctx   : the text and context of the caller that makes one call   *)
(*   bufB, ctxB : those of the caller that makes a call over the first     *)
(*                pc.a bytes and then one over the rest                    *)
(*   pc   : the split point a, and the calls made so far                   *)
(*   hist : the calls of the second caller, with what they were given and  *)
(*          what they left                                                 *)
(***************************************************************************)
SplitText == Plain1 \o Plain2 \o Plain3

FirstLengths == {0, 5, 16, 21, 32}

SecondLengths == {0, 7, 16}

IdleSplit == UNCHANGED <<build, mode, inited, adj, fault, st>>

SplitWhole ==
    /\ ~pc.whole
    /\ \E r \in {AES_CTR_xcrypt_buffer(ctx, buf, Len(buf))} :
        /\ ctx' = r.ctx
        /\ buf' = r.mem
    /\ pc' = [pc EXCEPT !.whole = TRUE]
    /\ UNCHANGED <<ctxB, bufB, hist>>
    /\ IdleSplit

\* the call over bytes ofs .. ofs + length - 1 of bufB
SplitCall(ofs, length) ==
    \E r \in {AES_CTR_xcrypt_buffer(ctxB, SubSeq(bufB, ofs + 1, Len(bufB)), length)} :
        /\ ctxB' = r.ctx
        /\ bufB' = SubSeq(bufB, 1, ofs) \o r.mem
        /\ hist' = Append(hist, [length |-> length,
                                 ivIn |-> ctxB.Iv, ivOut |-> r.ctx.Iv,
                                 bufIn |-> SubSeq(bufB, ofs + 1, ofs + length),
                                 bufOut |-> SubSeq(r.mem, 1, length),
                                 after |-> SubSeq(r.mem, length + 1, Len(r.mem)),
                                 before |-> SubSeq(bufB, ofs + length + 1, Len(bufB))])
        /\ pc' = [pc EXCEPT !.calls = @ + 1]
        /\ UNCHANGED <<ctx, buf>>
        /\ IdleSplit

SplitFirst ==
    /\ pc.calls = 0
    /\ SplitCall(0, pc.a)

SplitSecond ==
    /\ pc.calls = 1
    /\ SplitCall(pc.a, Len(bufB) - pc.a)

InitSplit ==
    /\ build \in Builds
    /\ mode = "CTR"
    /\ \E iv \in IVs : ctx = [RoundKey |-> Schedule, Iv |-> iv]
    /\ ctxB = ctx
    /\ inited = TRUE
    /\ \E a \in FirstLengths, b \in SecondLengths :
        /\ buf = SubSeq(SplitText, 1, a + b)
        /\ pc = [a |-> a, whole |-> FALSE, calls |-> 0]
    /\ bufB = buf
    /\ adj = <<>>
    /\ hist = <<>>
    /\ fault = FALSE
    /\ st = <<>>

NextSplit ==
    \/ SplitWhole
    \/ SplitFirst
    \/ SplitSecond

SpecSplit == InitSplit /\ [][NextSplit]_vars

\* ceil(n / 16)
BlocksNeeded(n) == (n + (AES_BLOCKLEN - 1)) \div AES_BLOCKLEN

\* byte k (from 0) of the encryption of counter0 + b
KeystreamByte(counter0, b, k) ==
    AsBytes(Cipher(AsState(CounterPlus(counter0, b)), Schedule))[k + 1]

\* the call e is a CTR pass from the counter it found, over a keystream that
\* starts at byte 0 of the encryption of that counter
FreshPass(e) ==
    /\ e.ivOut = CounterPlus(e.ivIn, BlocksNeeded(e.length))
    /\ e.length = 0 => (e.ivOut = e.ivIn /\ e.bufOut = e.bufIn)
    /\ Len(e.bufOut) = e.length
    /\ e.after = e.before
    /\ \A b \in 0..(BlocksNeeded(e.length) - 1) :
          \E keystream \in {AsBytes(Cipher(AsState(CounterPlus(e.ivIn, b)), Schedule))} :
              \A i \in Covered(b, e.length) :
                  e.bufOut[i + 1] = Xor8(e.bufIn[i + 1], keystream[(i % AES_BLOCKLEN) + 1])

SplitDone == pc.whole /\ pc.calls = 2

\* C12: a call of AES_CTR_xcrypt_buffer of length n advances the counter by
\* ceil(n/16) modulo 2^128 (n = 0 changes nothing) and XORs byte i with byte
\* i mod 16 of the encryption of counter0 + floor(i/16); the call after one of
\* length a starts at byte 0 of the encryption of counter0 + ceil(a/16),
\* whatever a mod 16 is; two calls of lengths a and b give the buffer and
\* counter of one call of length a + b whenever a is a multiple of 16.
C12_CtrPartialBlocks ==
    /\ \A p \in DOMAIN hist : FreshPass(hist[p])
    /\ Len(hist) = 2 =>
          /\ hist[2].ivIn = CounterPlus(hist[1].ivIn, BlocksNeeded(pc.a))
          /\ hist[2].length > 0 =>
                hist[2].bufOut[1] = Xor8(hist[2].bufIn[1],
                                         KeystreamByte(hist[1].ivIn, BlocksNeeded(pc.a), 0))
    /\ (SplitDone /\ pc.a % AES_BLOCKLEN = 0) => (bufB = buf /\ ctxB.Iv = ctx.Iv)

\* after a first call that ended inside a keystream block, the second call
\* started a new one: the two calls differ from the one call in the bytes
\* after the split and in the counter
C12_Witness ==
    /\ SplitDone
    /\ pc.a % AES_BLOCKLEN # 0
    /\ hist[2].length > 0
    /\ SubSeq(bufB, 1, pc.a) = SubSeq(buf, 1, pc.a)
    /\ bufB[pc.a + 1] # buf[pc.a + 1]
    /\ ctxB.Iv # ctx.Iv

====
